---- MODULE Spec2Model ----
(***************************************************************************)
(* Query engine of the MDict reader (mdict.cc): the dictionary as it       *)
(* stands after init(), the record blocks of the file it reads on demand,  *)
(* and the query operations lookup, suggest, regex_suggest and             *)
(* fulltext_search.                                                        *)
(*                                                                         *)
(* Strings (std::string) are sequences of byte values 0..255.  Positions   *)
(* in the C++ containers are 0-based; the accessors below hide the 1-based *)
(* indexing of TLA+ sequences.                                             *)
(***************************************************************************)
EXTENDS Integers, Sequences, FiniteSets, TLC

VARIABLES
    filetype,           \* Mdict::filetype, "MDX" (TEXT) or "MDD" (RESOURCE)
    encrypt,            \* Mdict::encrypt
    key_list,           \* Mdict::key_list, run-length encoded (see KeyAt)
    record_header,      \* Mdict::record_header
    record_block_size,  \* Mdict::record_block_size (header field)
    file,               \* the record blocks as stored in the file
    disk,               \* the header and index sections as stored in the file
    phase,              \* "constructed", "ready", "failed" (init threw) or
                        \* "aborted" (the process died in init)
    encoding,           \* Mdict::encoding
    version,            \* Mdict::version, in hundredths
    number_width,       \* Mdict::number_width
    key_block_num,      \* Mdict::key_block_num
    entries_num,        \* Mdict::entries_num
    key_block_info_list, \* Mdict::key_block_info_list
    op,                 \* the query that ran last
    arg,                \* its argument
    result,             \* the list it returned
    emitted,            \* for each returned element, the key_list index behind it
    raised,             \* TRUE when the query ended by throwing to its caller
    events,             \* callbacks and block decodes of the last query, in order
    file_pos,           \* the cursor of Mdict::file_ptr, counted from
                        \* record_block_offset
    calls,              \* the lookups that callers have in flight
    split               \* the locals of split_key_block while it runs

vars == <<filetype, encrypt, key_list, record_header, record_block_size, file,
          disk, phase, encoding, version, number_width, key_block_num, entries_num,
          key_block_info_list, op, arg, result, emitted, raised, events,
          file_pos, calls, split>>

\* what the caller of the last query saw
queryvars == <<op, arg, result, emitted, raised, events>>

\* what init() fills in
indexvars == <<encrypt, key_list, record_header, record_block_size, encoding,
               version, number_width, key_block_num, entries_num,
               key_block_info_list>>

dictvars == <<filetype, encrypt, key_list, record_header, record_block_size, file,
              disk, phase, encoding, version, number_width, key_block_num,
              entries_num, key_block_info_list>>

----------------------------------------------------------------------------
(* Bounds of the model.                                                     *)

MaxKeys == 2          \* key entries of an enumerated dictionary
MediumKeys == 52      \* key entries of the dictionary that exercises the 50 cap
MediumBlockLen == 5   \* bytes per record block of that dictionary
MaxWordLen == 3        \* bytes of a word handed to _s
BigKeys == 20002      \* key entries of the dictionary that exercises the scan limit
ChunkLen == 30        \* scan iterations evaluated per level of recursion
\* record blocks of the files whose block sizes vary
MaxBlocks == 3
\* threads that call into one dictionary
Callers == 2

----------------------------------------------------------------------------
(* Program constants.                                                       *)

ENCRYPT_NO_ENC == 0
ENCRYPT_RECORD_ENC == 1
ENCRYPT_KEY_INFO_ENC == 2

ENCODING_UTF8 == 0
ENCODING_UTF16 == 1
ENCODING_BIG5 == 2
ENCODING_GB18030 == 5

\* version is a float; the model keeps it in hundredths (2.0 is 200)
VersionUnit == 100

max_suggestions == 50

\* if (checked_count > 20000) break;
RegexCheckLimit == 20000

\* unsigned long arithmetic wraps; the word is scaled to 2^30, far above
\* every size that occurs in the model.
ULongSpan == 1073741824

USub(a, b) == IF a >= b THEN a - b ELSE ULongSpan - (b - a)

Min(a, b) == IF a < b THEN a ELSE b

----------------------------------------------------------------------------
(* Bytes and strings.                                                       *)

\* ::tolower in the C locale
tolower(c) == IF c >= 65 /\ c <= 90 THEN c + 32 ELSE c

\* std::transform(s.begin(), s.end(), s.begin(), ::tolower)
ToLowerStr(s) == [i \in 1..Len(s) |-> tolower(s[i])]

\* the characters _s drops: space : . , - _ ' ( ) # < > ! / \ [ ] { } @
\* the same without '@'
StripSetShort == {32, 58, 46, 44, 45, 95, 39, 40, 41, 35, 60, 62, 33, 47, 92,
                  91, 93, 123, 125}

StripSet == {32, 58, 46, 44, 45, 95, 39, 40, 41, 35, 60, 62, 33, 47, 92,
             91, 93, 123, 125, 64}

RECURSIVE StripFrom(_, _)
StripFrom(word, i) ==
    IF i > Len(word) THEN <<>>
    ELSE LET c == word[i] IN
         IF c >= 65 /\ c <= 90 THEN <<c + 32>> \o StripFrom(word, i + 1)
         ELSE IF c \in StripSet THEN StripFrom(word, i + 1)
         ELSE <<c>> \o StripFrom(word, i + 1)

\* std::string _s(std::string word)
_s(word) == StripFrom(word, 1)

\* std::string normalize_path(const std::string& path): lowercase, '/' to
\* '\', a leading '\' put in front when there is none
normalize_path(path) ==
    LET res == [i \in 1..Len(path) |->
                   IF tolower(path[i]) = 47 THEN 92 ELSE tolower(path[i])]
    IN IF res # <<>> /\ res[1] # 92 THEN <<92>> \o res ELSE res

\* std::string operator< : lexicographic on unsigned bytes
RECURSIVE StrLessFrom(_, _, _)
StrLessFrom(a, b, i) ==
    IF i > Len(b) THEN FALSE
    ELSE IF i > Len(a) THEN TRUE
    ELSE IF a[i] < b[i] THEN TRUE
    ELSE IF a[i] > b[i] THEN FALSE
    ELSE StrLessFrom(a, b, i + 1)

StrLess(a, b) == StrLessFrom(a, b, 1)

\* s.rfind(p, 0) == 0
StartsWith(s, p) ==
    /\ Len(p) <= Len(s)
    /\ \A i \in 1..Len(p) : s[i] = p[i]

\* s.find(sub) != npos
Contains(s, sub) ==
    \E k \in 0..(Len(s) - Len(sub)) :
        \A i \in 1..Len(sub) : s[k + i] = sub[i]

----------------------------------------------------------------------------
(* The key list and the record directory.                                   *)

\* key_list holds the vector run-length encoded: a run stands for `count'
\* consecutive key_list_items with the same key_word whose record_start
\* advances by `stride'.
RECURSIVE RunTotal(_, _)
RunTotal(runs, r) ==
    IF r > Len(runs) THEN 0 ELSE runs[r].count + RunTotal(runs, r + 1)

\* key_list.size()
KeyCount == RunTotal(key_list, 1)

RECURSIVE RunAt(_, _, _)
RunAt(runs, r, i) ==
    IF i < runs[r].count
    THEN [record_start |-> runs[r].record_start + i * runs[r].stride,
          key_word |-> runs[r].key_word]
    ELSE RunAt(runs, r + 1, i - runs[r].count)

\* key_list[i]
KeyAt(i) == RunAt(key_list, 1, i)

\* record_header[i]
RecordHeaderAt(i) == record_header[i + 1]

\* BuildRecordHeader with the sums advanced before the item is pushed
RECURSIVE BuildRecordHeaderEarly(_, _, _, _)
BuildRecordHeaderEarly(sizes, i, comp_accu, decomp_accu) ==
    IF i > Len(sizes) THEN <<>>
    ELSE <<[compressed_size |-> sizes[i][1],
            decompressed_size |-> sizes[i][2],
            compressed_size_accumulator |-> comp_accu + sizes[i][1],
            decompressed_size_accumulator |-> decomp_accu + sizes[i][2]]>>
         \o BuildRecordHeaderEarly(sizes, i + 1, comp_accu + sizes[i][1],
                                   decomp_accu + sizes[i][2])

\* new record_header_item(i, comp_size, uncomp_size, comp_accu, decomp_accu)
\* pushed for every block with running sums (read_record_block_header)
RECURSIVE BuildRecordHeader(_, _, _, _)
BuildRecordHeader(sizes, i, comp_accu, decomp_accu) ==
    IF i > Len(sizes) THEN <<>>
    ELSE <<[compressed_size |-> sizes[i][1],
            decompressed_size |-> sizes[i][2],
            compressed_size_accumulator |-> comp_accu,
            decompressed_size_accumulator |-> decomp_accu]>>
         \o BuildRecordHeader(sizes, i + 1, comp_accu + sizes[i][1],
                              decomp_accu + sizes[i][2])

\* long reduce_record_block_offset(unsigned long record_start)
RECURSIVE ReduceRecordLoop(_, _, _)
ReduceRecordLoop(record_start, left, right) ==
    IF left > right THEN USub(left, 1)
    ELSE LET mid == left + ((right - left) \div 2) IN
         IF mid >= Len(record_header) THEN USub(0, 1)
         ELSE IF record_start >= RecordHeaderAt(mid).decompressed_size_accumulator
              THEN ReduceRecordLoop(record_start, mid + 1, right)
              ELSE ReduceRecordLoop(record_start, left, USub(mid, 1))

\* reduce_record_block_offset ending with return left
reduce_record_block_offset_left(record_start) ==
    (ReduceRecordLoop(record_start, 0, USub(Len(record_header), 1)) + 1) % ULongSpan

reduce_record_block_offset(record_start) ==
    ReduceRecordLoop(record_start, 0, USub(Len(record_header), 1))

----------------------------------------------------------------------------
(* Record blocks.                                                           *)

\* A stored record block: byte 0 (comp_type), bytes 4..8 (checksum) and
\* `inflated', the bytes zlib_mem_uncompress yields for the rest (empty when
\* the stream is corrupt).

\* record_block[pos]; a position past the buffer reads whatever follows it
\* in memory, here the byte g.
Mem(buf, g, pos) == IF pos < Len(buf) THEN buf[pos + 1] ELSE g

\* adler32checksum(buf, len)
RECURSIVE AdlerLoop(_, _, _, _, _, _)
AdlerLoop(buf, g, i, len, a, b) ==
    IF i >= len THEN b * 65536 + a
    ELSE LET a2 == (a + Mem(buf, g, i)) % 65521 IN
         AdlerLoop(buf, g, i + 1, len, a2, (b + a2) % 65521)

adler32checksum(buf, g, len) == AdlerLoop(buf, g, 0, len, 1, 0)

RECURSIVE StripTrailingNuls(_)
StripTrailingNuls(s) ==
    IF Len(s) > 0 /\ s[Len(s)] = 0
    THEN StripTrailingNuls(SubSeq(s, 1, Len(s) - 1))
    ELSE s

\* be_bin_to_utf8(bytes, offset, len)
be_bin_to_utf8(buf, g, offset, len) ==
    StripTrailingNuls([k \in 1..len |-> Mem(buf, g, offset + k - 1)])

\* hex_map[b >> 4] and hex_map[b & 0x0F]
HexChar(n) == IF n < 10 THEN 48 + n ELSE 55 + n

\* the MDD branch: two hex digits for each of the upbound bytes at data_ptr
HexOfRange(buf, g, offset, len) ==
    [k \in 1..(2 * len) |->
        LET b == Mem(buf, g, offset + ((k - 1) \div 2)) IN
        IF k % 2 = 1 THEN HexChar(b \div 16) ELSE HexChar(b % 16)]

\* the while loop of decode_record_block_by_rid over key_list
RECURSIVE DecodeEntries(_, _, _, _)
DecodeEntries(i, rid, buf, g) ==
    LET uncomp_size == RecordHeaderAt(rid).decompressed_size
        decomp_accu == RecordHeaderAt(rid).decompressed_size_accumulator
        previous_end == IF rid > 0
                        THEN RecordHeaderAt(rid - 1).decompressed_size_accumulator
                        ELSE 0
        previous_uncomp_size == IF rid > 0
                                THEN RecordHeaderAt(rid - 1).decompressed_size
                                ELSE 0
    IN
    IF i >= KeyCount THEN <<>>
    ELSE LET record_start == KeyAt(i).record_start IN
         IF record_start < decomp_accu THEN DecodeEntries(i + 1, rid, buf, g)
         ELSE IF record_start - decomp_accu >= uncomp_size THEN <<>>
         ELSE LET expect_start == record_start - decomp_accu
                  expect_end ==
                      IF i < USub(KeyCount, 1)
                      THEN USub(KeyAt(i + 1).record_start, record_start)
                      ELSE USub(record_block_size,
                                previous_end + previous_uncomp_size)
                  upbound == Min(expect_end, uncomp_size)
                  def == IF filetype = "MDD"
                         THEN HexOfRange(buf, g, expect_start, upbound)
                         ELSE be_bin_to_utf8(buf, g, expect_start, upbound)
              IN <<[idx |-> i, first |-> KeyAt(i).key_word, second |-> def]>>
                 \o DecodeEntries(i + 1, rid, buf, g)

\* DecodeRecordBlock without the comparison of the checksum
DecodeRecordBlockUnverified(rid, blk, g) ==
    LET uncomp_size == RecordHeaderAt(rid).decompressed_size
        comp_type == blk.comp_type
        record_block_uncompressed_v == blk.inflated
        err ==
            IF comp_type = 0 THEN "uncompress block not support yet"
            ELSE IF encrypt = ENCRYPT_RECORD_ENC
                 THEN "record encrypted not support yet"
            ELSE IF comp_type = 1 THEN "lzo compress not support yet"
            ELSE IF comp_type = 2
                 THEN IF record_block_uncompressed_v = <<>>
                      THEN "record block decompress failed size == 0"
                      ELSE IF Len(record_block_uncompressed_v) # uncomp_size
                           THEN "record block decompress size mismatch"
                      ELSE ""
            ELSE "cannot determine the record block compress type"
    IN [err |-> err,
        vec |-> IF err = "" THEN DecodeEntries(0, rid, record_block_uncompressed_v, g)
                ELSE <<>>]

\* decode_record_block_by_rid(rid) once readfile has filled
\* record_block_cmp_buffer with blk: err names the exception thrown, "" none
DecodeRecordBlock(rid, blk, g) ==
    LET uncomp_size == RecordHeaderAt(rid).decompressed_size
        comp_type == blk.comp_type
        checksum == blk.checksum
        record_block_uncompressed_v == blk.inflated
        adler32cs == adler32checksum(record_block_uncompressed_v, g, uncomp_size)
        err ==
            IF comp_type = 0 THEN "uncompress block not support yet"
            ELSE IF encrypt = ENCRYPT_RECORD_ENC
                 THEN "record encrypted not support yet"
            ELSE IF comp_type = 1 THEN "lzo compress not support yet"
            ELSE IF comp_type = 2
                 THEN IF record_block_uncompressed_v = <<>>
                      THEN "record block decompress failed size == 0"
                      ELSE IF Len(record_block_uncompressed_v) # uncomp_size
                           THEN "record block decompress size mismatch"
                      ELSE IF adler32cs # checksum
                           THEN "record block checksum mismatch"
                      ELSE ""
            ELSE "cannot determine the record block compress type"
    IN [err |-> err,
        vec |-> IF err = "" THEN DecodeEntries(0, rid, record_block_uncompressed_v, g)
                ELSE <<>>]

\* decode_record_block_by_rid(rid) when nothing moves the cursor between
\* the seek and the read of its readfile
decode_record_block_by_rid(rid, g) == DecodeRecordBlock(rid, file[rid + 1], g)

DecodeEvent(rid, err) == [type |-> "decode", rid |-> rid, err |-> err]

\* where the readfile of decode_record_block_by_rid(rid) seeks to and where
\* it leaves the cursor
BlockOffset(rid) == RecordHeaderAt(rid).compressed_size_accumulator
BlockEnd(rid) == BlockOffset(rid) + RecordHeaderAt(rid).compressed_size

\* the cursor after a query that decoded the blocks evs names
CursorAfter(evs) ==
    LET decodes == {k \in 1..Len(evs) : evs[k].type = "decode"}
        last == CHOOSE k \in decodes : \A j \in decodes : j <= k
    IN IF decodes = {} THEN file_pos ELSE BlockEnd(evs[last].rid)

----------------------------------------------------------------------------
(* lookup.                                                                  *)

\* reduce_particial_keys_vector without the already_added test of the
\* second scan
reduce_particial_keys_vector_twice(vec, phrase) ==
    LET word_to_find == _s(phrase)
        Raw(e) == phrase = e.first
        Stripped(e) == word_to_find = _s(e.first)
    IN SelectSeq(vec, Raw) \o SelectSeq(vec, Stripped)

\* reduce_particial_keys_vector(vec, phrase): the entries whose definitions
\* it returns, raw matches first, then the stripped matches not yet taken
reduce_particial_keys_vector(vec, phrase) ==
    LET word_to_find == _s(phrase)
        found_indices == {i \in 1..Len(vec) : phrase = vec[i].first}
        Raw(e) == phrase = e.first
        first_pass == SelectSeq(vec, Raw)
        tagged == [i \in 1..Len(vec) |-> [pos |-> i, e |-> vec[i]]]
        Stripped(t) == t.pos \notin found_indices /\ word_to_find = _s(t.e.first)
        second_pass == SelectSeq(tagged, Stripped)
    IN first_pass \o [i \in 1..Len(second_pass) |-> second_pass[i].e]

\* the test of the for loop over key_list in lookup
LookupTest(item, word) ==
    item.key_word = word \/ _s(item.key_word) = _s(word)

\* record_block_map filled without the test
RecordBlockMapKeysUnfiltered(word) ==
    {reduce_record_block_offset(KeyAt(i).record_start) : i \in 0..(KeyCount - 1)}

\* the keys of record_block_map
RecordBlockMapKeys(word) ==
    {reduce_record_block_offset(KeyAt(i).record_start) :
        i \in {j \in 0..(KeyCount - 1) : LookupTest(KeyAt(j), word)}}

SetMin(S) == CHOOSE x \in S : \A y \in S : x <= y

KeysOf(suggestions) == [i \in 1..Len(suggestions) |-> suggestions[i].key]
IdxsOf(suggestions) == [i \in 1..Len(suggestions) |-> suggestions[i].idx]
SecondsOf(defs) == [i \in 1..Len(defs) |-> defs[i].second]

\* the loop over record_block_map, in key order; an exception leaves the
\* loop and is caught at the end of lookup, which then returns {}
RECURSIVE LookupBlocks(_, _, _, _)
RECURSIVE LookupDecoded(_, _, _, _, _, _)
LookupBlocks(rids, word, g, acc) ==
    IF rids = {} THEN acc
    ELSE LookupDecoded(rids, word, g, acc, SetMin(rids),
                       decode_record_block_by_rid(SetMin(rids), g))

LookupDecoded(rids, word, g, acc, record_idx, d) ==
    IF d.err # ""
    THEN [vals |-> <<>>, idxs |-> <<>>,
          events |-> Append(acc.events, DecodeEvent(record_idx, d.err))]
    ELSE LookupBlocks(rids \ {record_idx}, word, g,
            [vals |-> acc.vals
                      \o SecondsOf(reduce_particial_keys_vector(d.vec, word)),
             idxs |-> acc.idxs
                      \o IdxsOf(reduce_particial_keys_vector(d.vec, word)),
             events |-> Append(acc.events, DecodeEvent(record_idx, ""))])

\* the first key_list index whose key_word equals the name, or KeyCount
FindIf(resource_name) ==
    LET hits == {i \in 0..(KeyCount - 1) : KeyAt(i).key_word = resource_name}
    IN IF hits = {} THEN KeyCount ELSE SetMin(hits)

\* trim_nulls(def)
trim_nulls(def) == StripTrailingNuls(def)

\* locate(resource_name, MDICT_ENCODING_HEX); err names an exception thrown
locate(resource_name, g) ==
    LET it == FindIf(resource_name) IN
    IF it = KeyCount
    THEN [err |-> "", val |-> <<>>, idxs |-> <<>>, events |-> <<>>]
    ELSE LET record_block_idx == reduce_record_block_offset(KeyAt(it).record_start)
             d == decode_record_block_by_rid(record_block_idx, g)
             defs == reduce_particial_keys_vector(d.vec, resource_name)
         IN IF d.err # ""
            THEN [err |-> d.err, val |-> <<>>, idxs |-> <<>>,
                  events |-> <<DecodeEvent(record_block_idx, d.err)>>]
            ELSE IF defs = <<>>
            THEN [err |-> "", val |-> <<>>, idxs |-> <<>>,
                  events |-> <<DecodeEvent(record_block_idx, "")>>]
            ELSE [err |-> "", val |-> trim_nulls(defs[1].second),
                  idxs |-> <<defs[1].idx>>,
                  events |-> <<DecodeEvent(record_block_idx, "")>>]

\* std::vector<std::string> Mdict::lookup(const std::string word)
lookup(word, g) ==
    IF filetype = "MDD"
    THEN LET r == locate(word, g) IN
         IF r.err # "" \/ r.val = <<>>
         THEN [vals |-> <<>>, idxs |-> <<>>, events |-> r.events]
         ELSE [vals |-> <<r.val>>, idxs |-> r.idxs, events |-> r.events]
    ELSE LookupBlocks(RecordBlockMapKeys(word), word, g,
                      [vals |-> <<>>, idxs |-> <<>>, events |-> <<>>])

----------------------------------------------------------------------------
(* init(): read_header, read_key_block_header, read_key_block_info,         *)
(* read_record_block_header.                                                *)
(*                                                                          *)
(* disk describes the sections of the file that init() parses:              *)
(*   utf16ok      whether the header bytes convert from UTF-16,             *)
(*   attrs        the attributes of the header element,                     *)
(*   width        the width of the numbers the file was written with,       *)
(*   key_header   the numbers of the key block header, in file order,       *)
(*   info_tag     the first four bytes of the key block info,               *)
(*   info         the descriptors of the key block info,                    *)
(*   key_blocks   the key blocks: compression tag, soundness, entries,      *)
(*   record_info  the four numbers of the record block info section,        *)
(*   record_sizes the (compressed, decompressed) sizes of the record        *)
(*                block headers.                                            *)
(* The members init() sets are gathered in a record st while it runs.       *)

\* attribute values: "No", "Yes", "UTF-8", "GBK", ...
StrNo == <<78, 111>>
StrYes == <<89, 101, 115>>
StrUTF8 == <<85, 84, 70, 45, 56>>
StrGBK == <<71, 66, 75>>
StrGB2312 == <<71, 66, 50, 51, 49, 50>>
StrBig5 == <<66, 105, 103, 53>>
StrBIG5 == <<66, 73, 71, 53>>
Strutf16 == <<117, 116, 102, 49, 54>>
StrUTF16 == <<85, 84, 70, 45, 49, 54>>
Strutf_16 == <<117, 116, 102, 45, 49, 54>>

\* headinfo.find(name) != headinfo.end()
HasAttr(headinfo, name) == name \in DOMAIN headinfo

\* headinfo[name]: a missing attribute reads as the empty string
Attr(headinfo, name) == IF HasAttr(headinfo, name) THEN headinfo[name] ELSE <<>>

\* "Yes" taken for no encryption
EncryptOfYesPlain(headinfo) ==
    IF ~HasAttr(headinfo, "Encrypted") \/ Attr(headinfo, "Encrypted") = <<>>
       \/ Attr(headinfo, "Encrypted") \in {StrNo, StrYes}
    THEN ENCRYPT_NO_ENC
    ELSE IF Attr(headinfo, "Encrypted")[1] = 50 THEN ENCRYPT_KEY_INFO_ENC
    ELSE IF Attr(headinfo, "Encrypted")[1] = 49 THEN ENCRYPT_RECORD_ENC
    ELSE ENCRYPT_NO_ENC

\* the encrypted flag of read_header
EncryptOf(headinfo) ==
    IF ~HasAttr(headinfo, "Encrypted") \/ Attr(headinfo, "Encrypted") = <<>>
       \/ Attr(headinfo, "Encrypted") = StrNo
    THEN ENCRYPT_NO_ENC
    ELSE IF Attr(headinfo, "Encrypted") = StrYes THEN ENCRYPT_RECORD_ENC
    ELSE IF Attr(headinfo, "Encrypted")[1] = 50 THEN ENCRYPT_KEY_INFO_ENC
    ELSE IF Attr(headinfo, "Encrypted")[1] = 49 THEN ENCRYPT_RECORD_ENC
    ELSE ENCRYPT_NO_ENC

\* the encoding of read_header, the "FIX mdd" included
EncodingOf(headinfo, ft) ==
    IF ft = "MDD" THEN ENCODING_UTF16
    ELSE IF HasAttr(headinfo, "Encoding") \/ Attr(headinfo, "Encoding") = <<>>
            \/ Attr(headinfo, "Encoding") = StrUTF8
    THEN ENCODING_UTF8
    ELSE IF Attr(headinfo, "Encoding") \in {StrGBK, StrGB2312} THEN ENCODING_GB18030
    ELSE IF Attr(headinfo, "Encoding") \in {StrBig5, StrBIG5} THEN ENCODING_BIG5
    ELSE IF Attr(headinfo, "Encoding") \in {Strutf16, Strutf_16} THEN ENCODING_UTF16
    ELSE ENCODING_UTF8

IsSpace(c) == c \in {32, 9, 10, 11, 12, 13}
IsDigit(c) == c >= 48 /\ c <= 57

RECURSIVE SkipSpace(_, _)
SkipSpace(sver, i) ==
    IF i < Len(sver) /\ IsSpace(sver[i + 1]) THEN SkipSpace(sver, i + 1) ELSE i

\* the digits before the point: the value and the index after them
RECURSIVE IntPart(_, _, _)
IntPart(sver, i, int_part) ==
    IF i < Len(sver) /\ IsDigit(sver[i + 1])
    THEN IntPart(sver, i + 1, int_part * 10 + (sver[i + 1] - 48))
    ELSE [v |-> int_part, i |-> i]

\* the digits after the point, in hundredths (further digits add less)
RECURSIVE FracPart(_, _, _)
FracPart(sver, i, divisor) ==
    IF i < Len(sver) /\ IsDigit(sver[i + 1])
    THEN ((sver[i + 1] - 48) * VersionUnit) \div divisor
         + FracPart(sver, i + 1, divisor * 10)
    ELSE 0

ParsedFrom(sver, ip) ==
    ip.v * VersionUnit
    + (IF ip.i < Len(sver) /\ sver[ip.i + 1] = 46 THEN FracPart(sver, ip.i + 1, 10)
       ELSE 0)

\* the lambda parse_version(s, 0.0f)
parse_version(sver) ==
    IF SkipSpace(sver, 0) = Len(sver) THEN 0
    ELSE ParsedFrom(sver, IntPart(sver, SkipSpace(sver, 0), 0))

\* version >= 2.0
IsV2(ver) == ver >= 2 * VersionUnit

\* void Mdict::read_header(): a header that does not convert from UTF-16
\* makes it return and leaves the members as they were
read_header(d, ft, st) ==
    IF ~d.utf16ok THEN st
    ELSE [st EXCEPT
            !.encrypt = EncryptOf(d.attrs),
            !.version = parse_version(Attr(d.attrs, "GeneratedByEngineVersion")),
            !.number_width =
                IF IsV2(parse_version(Attr(d.attrs, "GeneratedByEngineVersion")))
                THEN 8 ELSE 4,
            !.encoding = EncodingOf(d.attrs, ft)]

\* how a step of init() ends: err is "" when it returned, otherwise the
\* exception thrown (kind "throw") or the failed assertion or fault that
\* killed the process (kind "abort")
Ok(st, warnings) == [err |-> "", kind |-> "", st |-> st, warnings |-> warnings]
Throw(st, what) == [err |-> what, kind |-> "throw", st |-> st, warnings |-> <<>>]
Abort(st, what) == [err |-> what, kind |-> "abort", st |-> st, warnings |-> <<>>]

\* the number be_bin_to_u64 / be_bin_to_u32 finds `off' bytes into a section
\* whose numbers were written `layout' bytes wide, read `w' bytes wide: a
\* 4-byte read of an 8-byte number sees its high half (0) or its low half.
\* The dictionaries of the model never have 8-byte reads of 4-byte numbers.
ReadNumber(numbers, layout, off, w) ==
    CASE w = layout -> numbers[(off \div w) + 1]
      [] w = 4 /\ layout = 8 ->
            IF (off \div 4) % 2 = 0 THEN 0 ELSE numbers[(off \div 8) + 1]
      [] w \notin {4, 8} -> 0

\* steps 1 and 2 of read_key_block_header: with number_width 4 the second
\* number is assigned to key_block_num and entries_num keeps its 0
KeyHeaderCounts(first, second, w) ==
    [key_block_num |-> IF w = 8 THEN first ELSE IF w = 4 THEN second ELSE 0,
     entries_num |-> IF w = 8 THEN second ELSE 0]

\* bin_slice(buf, buf_len, offset, len, out) fails past the buffer
BinSliceFails(buf_len, off, len) == off + len > buf_len

KeyHeaderParsed(d, st, buf_len, size_off, counts) ==
    IF BinSliceFails(buf_len, size_off, st.number_width)
    THEN Throw(st, "decode key block info size failed")
    ELSE IF BinSliceFails(buf_len, size_off + st.number_width, st.number_width)
    THEN Throw(st, "decode key block size failed")
    ELSE Ok([st EXCEPT
               !.key_block_num = counts.key_block_num,
               !.entries_num = counts.entries_num,
               !.key_block_info_decompress_size =
                   IF IsV2(st.version)
                   THEN ReadNumber(d.key_header, d.width, 2 * st.number_width,
                                   st.number_width)
                   ELSE @,
               !.key_block_info_size =
                   ReadNumber(d.key_header, d.width, size_off, st.number_width),
               !.key_block_size =
                   ReadNumber(d.key_header, d.width, size_off + st.number_width,
                              st.number_width)], <<>>)

\* void Mdict::read_key_block_header()
read_key_block_header(d, st) ==
    IF st.encrypt = ENCRYPT_RECORD_ENC THEN Throw(st, "invalid encrypted file")
    ELSE IF BinSliceFails(IF IsV2(st.version) THEN 40 ELSE 16, 0, st.number_width)
            \/ BinSliceFails(IF IsV2(st.version) THEN 40 ELSE 16,
                             st.number_width, st.number_width)
    THEN Throw(st, "get key block bin slice failed")
    ELSE IF IsV2(st.version)
            /\ BinSliceFails(40, 2 * st.number_width, st.number_width)
    THEN Throw(st, "decode key block decompress size failed")
    ELSE KeyHeaderParsed(d, st,
             IF IsV2(st.version) THEN 40 ELSE 16,
             IF IsV2(st.version) THEN 3 * st.number_width ELSE 2 * st.number_width,
             KeyHeaderCounts(ReadNumber(d.key_header, d.width, 0, st.number_width),
                             ReadNumber(d.key_header, d.width, st.number_width,
                                        st.number_width),
                             st.number_width))

\* the while loop of decode_key_block_info: one key_block_info per descriptor
RECURSIVE BuildKeyBlockInfo(_, _, _, _, _)
BuildKeyBlockInfo(info, counter, num, comp_acc, decomp_acc) ==
    IF counter >= num THEN <<>>
    ELSE <<[first_key |-> info[counter + 1].first_key,
            last_key |-> info[counter + 1].last_key,
            key_block_start_offset |-> comp_acc,
            key_block_comp_size |-> info[counter + 1].comp_size,
            key_block_decomp_size |-> info[counter + 1].decomp_size,
            key_block_comp_accumulator |-> comp_acc,
            key_block_decomp_accumulator |-> decomp_acc]>>
         \o BuildKeyBlockInfo(info, counter + 1, num,
                              comp_acc + info[counter + 1].comp_size,
                              decomp_acc + info[counter + 1].decomp_size)

\* num_entries_counter after the loop
RECURSIVE EntriesCounted(_, _, _)
EntriesCounted(info, counter, num) ==
    IF counter >= num THEN 0
    ELSE info[counter + 1].entries + EntriesCounted(info, counter + 1, num)

MismatchWarning(found, expected) ==
    [type |-> "warning", found |-> found, expected |-> expected]

\* if (num_entries_counter != this->entries_num) std::cerr << "[Warning] ..."
EntryCountChecked(st, num_entries_counter) ==
    IF num_entries_counter # st.entries_num
    THEN Ok(st, <<MismatchWarning(num_entries_counter, st.entries_num)>>)
    ELSE Ok(st, <<>>)

\* int Mdict::decode_key_block_info(...)
decode_key_block_info(d, st, asserts) ==
    IF IsV2(st.version)
    THEN IF asserts /\ d.info_tag # <<2, 0, 0, 0>>
         THEN Abort(st, "assert(kb_info_buff[0] == 2)")
         ELSE IF asserts /\ d.info_bytes # st.key_block_info_decompress_size
         THEN Abort(st, "assert(decompress_buff.size() == key_block_info_decompress_size)")
         ELSE EntryCountChecked(
                 [st EXCEPT !.key_block_info_list =
                      BuildKeyBlockInfo(d.info, 0, st.key_block_num, 0, 0)],
                 EntriesCounted(d.info, 0, st.key_block_num))
    ELSE Throw(st, "not implements yet")

\* the for loop of decode_key_block from block idx (0-based) on.  The
\* compression tag is copied from the start of the buffer, that is from the
\* first key block, and a stored block is likewise taken from there.
RECURSIVE DecodeKeyBlocks(_, _, _, _)
DecodeKeyBlocks(d, st, idx, asserts) ==
    IF idx >= Len(st.key_block_info_list) THEN Ok(st, <<>>)
    ELSE CASE d.key_blocks[1].comp_type = 0 ->
                DecodeKeyBlocks(d, [st EXCEPT !.key_list = @ \o d.key_blocks[1].entries],
                                idx + 1, asserts)
           [] d.key_blocks[1].comp_type = 1 ->
                Abort(st, "split_key_block(nullptr)")
           [] d.key_blocks[1].comp_type = 2 ->
                IF d.key_blocks[idx + 1].body # "zlib"
                   \/ d.key_blocks[idx + 1].entries = <<>>
                THEN Throw(st, "key block decompress failed")
                ELSE IF asserts /\ ~d.key_blocks[idx + 1].sound
                THEN Abort(st, "assert(adler32cs == chksum)")
                ELSE DecodeKeyBlocks(d, [st EXCEPT !.key_list =
                                             @ \o d.key_blocks[idx + 1].entries],
                                     idx + 1, asserts)
           [] OTHER -> Throw(st, "cannot determine the key block compress type")

KeyListChecked(r, asserts) ==
    IF r.err = "" /\ asserts /\ RunTotal(r.st.key_list, 1) # r.st.entries_num
    THEN Abort(r.st, "assert(key_list.size() == this->entries_num)")
    ELSE r

\* int Mdict::decode_key_block(...)
decode_key_block(d, st, asserts) ==
    KeyListChecked(DecodeKeyBlocks(d, st, 0, asserts), asserts)

KeyBlocksAfterInfo(d, r, asserts) ==
    IF r.err # "" THEN r
    ELSE [decode_key_block(d, r.st, asserts) EXCEPT !.warnings = r.warnings \o @]

\* void Mdict::read_key_block_info()
read_key_block_info(d, st, asserts) ==
    KeyBlocksAfterInfo(d, decode_key_block_info(d, st, asserts), asserts)

RECURSIVE SizesUpTo(_, _)
SizesUpTo(sizes, n) ==
    IF n = 0 THEN <<>> ELSE Append(SizesUpTo(sizes, n - 1), sizes[n])

RecordHeaderBuilt(st, asserts, sizes) ==
    IF asserts /\ Len(sizes) # st.record_block_number
    THEN Abort(st, "assert(this->record_header.size() == this->record_block_number)")
    ELSE IF asserts /\ Len(sizes) * 2 * st.number_width # st.record_block_header_size
    THEN Abort(st, "assert(size_counter == this->record_block_header_size)")
    ELSE Ok([st EXCEPT !.record_header = @ \o BuildRecordHeader(sizes, 1, 0, 0)], <<>>)

RecordInfoRead(d, st, asserts) ==
    IF asserts /\ st.record_block_entries_number # st.entries_num
    THEN Abort(st, "assert(record_block_entries_number == entries_num)")
    ELSE RecordHeaderBuilt(st, asserts,
                           IF IsV2(st.version)
                           THEN SizesUpTo(d.record_sizes, st.record_block_number)
                           ELSE <<>>)

\* int Mdict::read_record_block_header()
read_record_block_header(d, st, asserts) ==
    RecordInfoRead(d,
        IF IsV2(st.version)
        THEN [st EXCEPT !.record_block_number = d.record_info[1],
                        !.record_block_entries_number = d.record_info[2],
                        !.record_block_header_size = d.record_info[3],
                        !.record_block_size = d.record_info[4]]
        ELSE st,
        asserts)

Step(name) == [type |-> "step", name |-> name]

\* the rest of init() after each step, with the steps entered so far
AfterKeyInfo(d, r, asserts, steps) ==
    IF r.err # "" THEN [r EXCEPT !.warnings = steps \o @]
    ELSE [read_record_block_header(d, r.st, asserts) EXCEPT
             !.warnings = steps \o r.warnings
                          \o <<Step("read_record_block_header")>> \o @]

AfterKeyHeader(d, r, asserts, steps) ==
    IF r.err # "" THEN [r EXCEPT !.warnings = steps \o @]
    ELSE AfterKeyInfo(d, read_key_block_info(d, r.st, asserts), asserts,
                      steps \o <<Step("read_key_block_info")>>)

AfterHeader(d, st, asserts, steps) ==
    AfterKeyHeader(d, read_key_block_header(d, st), asserts,
                   steps \o <<Step("read_key_block_header")>>)

\* void Mdict::init(): the outcome, the members and the log of steps and
\* warnings
init(d, ft, st, asserts) ==
    IF ~d.present
    THEN Throw(st, "File does not exist")
    ELSE AfterHeader(d, read_header(d, ft, st), asserts, <<Step("read_header")>>)

----------------------------------------------------------------------------
(* Dictionaries the model opens.                                            *)

KeyWords == {<<97>>, <<65>>, <<97, 98>>}            \* "a", "A", "ab"
Values == {<<120>>, <<89, 122, 0>>}                 \* "x", "Yz\0"
CompSizes == {9, 19}                                \* bytes of a stored block
MediumCompSize == 9
Garbage == {0, 120}                                 \* bytes met past a buffer
LookupWords == {<<97>>, <<65>>, <<97, 45>>, <<98>>} \* "a", "A", "a-", "b"
FaultKinds == {"none", "stored", "lzo", "tag3", "badsum", "badsize", "zfail"}
Prefixes == {<<>>, <<97>>, <<65>>, <<97, 98>>, <<98>>}  \* "", "a", "A", "ab", "b"
\* "", "a", "^A", "a$", "x", "^ab?", "a|b", "(", ".*"
Patterns == {<<>>, <<97>>, <<94, 65>>, <<97, 36>>, <<120>>, <<94, 97, 98, 63>>,
             <<97, 124, 98>>, <<40>>, <<46, 42>>}
\* 'A', 'Z', 'a', '@', '[', '-', 0xC8
NormalizeBytes == {65, 90, 97, 64, 91, 45, 200}
NormalizeWords == UNION {[1..n -> NormalizeBytes] : n \in 0..MaxWordLen}
Threads == 1..Callers
SharedKeyWords == {<<97>>, <<97, 98>>}                \* "a", "ab"
SharedWords == {<<97>>, <<97, 98>>, <<98>>}           \* "a", "ab", "b"
ResourceKeys == {<<92, 97>>, <<92, 98>>}             \* "\a", "\b"
\* "/a", "\a", "a", "\A", "\c"
ResourceNames == {<<47, 97>>, <<92, 97>>, <<97>>, <<92, 65>>, <<92, 99>>}
Queries == {<<>>, <<120>>, <<89, 90>>}               \* "", "x", "YZ"
\* 1068, 2^31 - 536, 2^32 - 536, 2^32, 2^48 + 60
StartOffsets == {<<0, 0, 0, 1068>>, <<0, 0, 32767, 65000>>, <<0, 0, 65535, 65000>>,
                 <<0, 1, 0, 0>>, <<1, 0, 0, 60>>}
\* 32, 1000, 2^31, 2^32 - 1, 2^32
InfoSizes == {<<0, 0, 0, 32>>, <<0, 0, 0, 1000>>, <<0, 0, 32768, 0>>,
              <<0, 0, 65535, 65535>>, <<0, 1, 0, 0>>}
\* 16, 2^31 - 1, 2^31, 2^32, 2^32 + 16
BlockSizes == {<<0, 0, 0, 16>>, <<0, 0, 32767, 65535>>, <<0, 0, 32768, 0>>,
               <<0, 1, 0, 0>>, <<0, 1, 0, 16>>}

RECURSIVE Concat(_, _, _)
Concat(vs, from, to) ==
    IF from > to THEN <<>> ELSE vs[from] \o Concat(vs, from + 1, to)

Str2_0 == <<50, 46, 48>>      \* "2.0"
Str1_2 == <<49, 46, 50>>      \* "1.2"

\* the Encrypted attribute a writer puts for an encryption mode
EncryptedAttr(enc) ==
    CASE enc = ENCRYPT_NO_ENC -> StrNo
      [] enc = ENCRYPT_RECORD_ENC -> <<49>>
      [] enc = ENCRYPT_KEY_INFO_ENC -> <<50>>

RECURSIVE EntriesIn(_, _)
EntriesIn(blocks, b) ==
    IF b > Len(blocks) THEN 0 ELSE RunTotal(blocks[b], 1) + EntriesIn(blocks, b + 1)

\* a well-formed file of engine version 2.0: the key blocks hold the given
\* entries, the record blocks have the given sizes
WellFormedDisk(enc, blocks, sizes, rb_size) ==
    [present |-> TRUE,
     utf16ok |-> TRUE,
     attrs |-> [a \in {"Encrypted", "GeneratedByEngineVersion"} |->
                   IF a = "Encrypted" THEN EncryptedAttr(enc) ELSE Str2_0],
     width |-> 8,
     key_header |-> <<Len(blocks), EntriesIn(blocks, 1), 32 * Len(blocks),
                      24 * Len(blocks), 16 * Len(blocks)>>,
     info_tag |-> <<2, 0, 0, 0>>,
     info_bytes |-> 32 * Len(blocks),
     info |-> [b \in 1..Len(blocks) |->
                  [entries |-> RunTotal(blocks[b], 1),
                   first_key |-> blocks[b][1].key_word,
                   last_key |-> blocks[b][Len(blocks[b])].key_word,
                   comp_size |-> 16, decomp_size |-> 16]],
     key_blocks |-> [b \in 1..Len(blocks) |->
                        [comp_type |-> 2, body |-> "zlib", sound |-> TRUE,
                         entries |-> blocks[b]]],
     record_info |-> <<Len(sizes), EntriesIn(blocks, 1), 16 * Len(sizes), rb_size>>,
     record_sizes |-> sizes]

\* the members other than the lists as init() leaves them for such a file
Indexed(ft, enc, runs, sizes, rb_size) ==
    /\ disk = WellFormedDisk(enc, <<runs>>, sizes, rb_size)
    /\ phase = "ready"
    /\ encoding = IF ft = "MDD" THEN ENCODING_UTF16 ELSE ENCODING_UTF8
    /\ version = 2 * VersionUnit
    /\ number_width = 8
    /\ key_block_num = 1
    /\ entries_num = RunTotal(runs, 1)
    /\ key_block_info_list =
          BuildKeyBlockInfo(WellFormedDisk(enc, <<runs>>, sizes, rb_size).info,
                            0, 1, 0, 0)

\* a block holding `body', damaged as `fault' says
StoredBlock(body, fault) ==
    [comp_type |-> CASE fault = "stored" -> 0
                     [] fault = "lzo" -> 1
                     [] fault = "tag3" -> 3
                     [] OTHER -> 2,
     checksum |-> IF fault = "badsum"
                  THEN adler32checksum(body, 0, Len(body)) + 1
                  ELSE adler32checksum(body, 0, Len(body)),
     inflated |-> CASE fault = "badsize" -> SubSeq(body, 1, Len(body) - 1)
                    [] fault = "zfail" -> <<>>
                    [] OTHER -> body]

\* the state init() leaves for a file with the given record bodies
OpenedAs(ft, enc, runs, bodies, cs, fb, fault) ==
    /\ filetype = ft
    /\ encrypt = enc
    /\ key_list = runs
    /\ record_header =
          BuildRecordHeader([b \in 1..Len(bodies) |-> <<cs, Len(bodies[b])>>], 1, 0, 0)
    /\ record_block_size = cs * Len(bodies)
    /\ file = [b \in 1..Len(bodies) |->
                  StoredBlock(bodies[b], IF b = fb THEN fault ELSE "none")]
    /\ Indexed(ft, enc, runs, [b \in 1..Len(bodies) |-> <<cs, Len(bodies[b])>>],
               cs * Len(bodies))

RECURSIVE RunsOf(_, _, _, _)
RunsOf(ks, vs, i, start) ==
    IF i > Len(ks) THEN <<>>
    ELSE <<[record_start |-> start, stride |-> 0, key_word |-> ks[i], count |-> 1]>>
         \o RunsOf(ks, vs, i + 1, start + Len(vs[i]))

\* small dictionaries: every key list up to MaxKeys entries, every value
\* assignment, one or two record blocks, the first one damaged as `fault'
InitSmall(filetypes, faults) ==
    \E n \in 1..MaxKeys :
    \E ks \in [1..n -> KeyWords], vs \in [1..n -> Values], cut \in 1..n :
    \E ft \in filetypes, cs \in CompSizes, fault \in faults :
        LET bodies == IF cut = n THEN <<Concat(vs, 1, n)>>
                      ELSE <<Concat(vs, 1, cut), Concat(vs, cut + 1, n)>>
        IN OpenedAs(ft, ENCRYPT_NO_ENC, RunsOf(ks, vs, 1, 0), bodies, cs, 1, fault)

\* the record stream of the medium dictionary cut into blocks
RECURSIVE Chunks(_, _)
Chunks(stream, len) ==
    IF Len(stream) <= len THEN <<stream>>
    ELSE <<SubSeq(stream, 1, len)>> \o Chunks(SubSeq(stream, len + 1, Len(stream)), len)

\* a TEXT dictionary with MediumKeys entries "ab" -> "x" and a last entry
\* "b" -> "y", its record stream cut into blocks of MediumBlockLen bytes,
\* one of them possibly damaged
InitMedium(faults) ==
    LET stream == [k \in 1..(MediumKeys + 1) |-> IF k <= MediumKeys THEN 120 ELSE 121]
        bodies == Chunks(stream, MediumBlockLen)
        runs == <<[record_start |-> 0, stride |-> 1,
                   key_word |-> <<97, 98>>, count |-> MediumKeys],
                  [record_start |-> MediumKeys, stride |-> 1,
                   key_word |-> <<98>>, count |-> 1]>>
    IN \E fault \in faults, fb \in {1, 4, Len(bodies)} :
          OpenedAs("MDX", ENCRYPT_KEY_INFO_ENC, runs, bodies, MediumCompSize, fb, fault)

\* a TEXT dictionary of BigKeys entries "ab" that all start at offset 0 of
\* a one-byte record block
InitBig ==
    OpenedAs("MDX", ENCRYPT_NO_ENC,
             <<[record_start |-> 0, stride |-> 0,
                key_word |-> <<97, 98>>, count |-> BigKeys]>>,
             <<<<120>>>>, MediumCompSize, 1, "none")

\* small RESOURCE dictionaries keyed by normalized resource names
InitResource ==
    \E n \in 1..MaxKeys :
    \E ks \in [1..n -> ResourceKeys], vs \in [1..n -> Values], cut \in 1..n :
    \E cs \in CompSizes :
        LET bodies == IF cut = n THEN <<Concat(vs, 1, n)>>
                      ELSE <<Concat(vs, 1, cut), Concat(vs, cut + 1, n)>>
        IN OpenedAs("MDD", ENCRYPT_NO_ENC, RunsOf(ks, vs, 1, 0), bodies, cs, 1, "none")

\* TEXT dictionaries of MaxKeys entries in one or two record blocks
InitSharedDict ==
    \E ks \in [1..MaxKeys -> SharedKeyWords], cut \in 1..MaxKeys :
        LET vs == [i \in 1..MaxKeys |-> <<120>>]
            bodies == IF cut = MaxKeys THEN <<Concat(vs, 1, MaxKeys)>>
                      ELSE <<Concat(vs, 1, cut), Concat(vs, cut + 1, MaxKeys)>>
        IN OpenedAs("MDX", ENCRYPT_NO_ENC, RunsOf(ks, vs, 1, 0), bodies,
                    MediumCompSize, 1, "none")

\* dictionaries of MaxKeys entries in one or two record blocks, the first
\* block sound or with a wrong checksum
InitDamaged ==
    \E ks \in [1..MaxKeys -> SharedKeyWords], cut \in 1..MaxKeys :
    \E ft \in {"MDX", "MDD"}, fault \in {"none", "badsum"} :
        LET vs == [i \in 1..MaxKeys |-> <<120>>]
            bodies == IF cut = MaxKeys THEN <<Concat(vs, 1, MaxKeys)>>
                      ELSE <<Concat(vs, 1, cut), Concat(vs, cut + 1, MaxKeys)>>
        IN OpenedAs(ft, ENCRYPT_NO_ENC, RunsOf(ks, vs, 1, 0), bodies,
                    MediumCompSize, 1, fault)

\* the bytes of a key block entry: the number, the key text in the
\* dictionary's encoding and, unless it was lost, the delimiter
EntryBytes(record_start, key, ft, terminated) ==
    <<0, 0, 0, 0, 0, 0, 0, record_start>>
    \o (IF ft = "MDD"
        THEN [k \in 1..(2 * Len(key)) |-> IF k % 2 = 1 THEN key[(k + 1) \div 2] ELSE 0]
        ELSE key)
    \o (IF ~terminated THEN <<>> ELSE IF ft = "MDD" THEN <<0, 0>> ELSE <<0>>)

\* decompressed key blocks of one or two entries, sound, with a delimiter
\* missing, or cut short
SplitBlocks(ft) ==
    LET keys == {<<97>>, <<97, 98>>}
        one == {EntryBytes(0, k, ft, t) : k \in keys, t \in BOOLEAN}
        two == {EntryBytes(0, k[1], ft, t[1]) \o EntryBytes(1, k[2], ft, t[2]) :
                   k \in keys \X keys, t \in BOOLEAN \X BOOLEAN}
    IN {SubSeq(b, 1, Len(b) - cut) : b \in one \cup two, cut \in {0, 1, 9}}

\* split_key_block is not running
NotSplitting ==
    [pc |-> "idle", key_block |-> <<>>, key_start_idx |-> 0, key_end_idx |-> 0,
     inner_key_list |-> <<>>, key_len |-> 0, err |-> ""]

\* a caller that is not inside lookup
IdleCall ==
    [pc |-> "idle", word |-> <<>>, rids |-> {}, want |-> -1, from |-> -1,
     acc |-> [vals |-> <<>>, idxs |-> <<>>, events |-> <<>>]]

InitQuery ==
    /\ op = "none"
    /\ arg = <<>>
    /\ result = <<>>
    /\ emitted = <<>>
    /\ raised = FALSE
    /\ events = <<>>
    /\ file_pos = 0
    /\ calls = [t \in Threads |-> IdleCall]
    /\ split = NotSplitting

Init == InitSmall({"MDX", "MDD"}, FaultKinds) /\ InitQuery

InitSuggest == (InitSmall({"MDX", "MDD"}, {"none"}) \/ InitMedium({"none"})) /\ InitQuery

InitFulltext ==
    /\ \/ InitSmall({"MDX", "MDD"}, {"none", "lzo", "badsize"})
       \/ InitMedium({"none", "stored", "badsum"})
    /\ InitQuery

InitRegex ==
    /\ \/ InitSmall({"MDX"}, {"none"})
       \/ InitMedium({"none"})
       \/ InitBig
    /\ InitQuery

----------------------------------------------------------------------------
(* Files handed to init().                                                  *)

\* stands for an attribute the header does not have
None == <<-1>>

EncryptedValues == {None, <<>>, StrNo, StrYes, <<49>>, <<50>>, <<51>>, <<49, 48>>}
EncodingValues == {None, <<>>, StrUTF8, StrGBK, StrGB2312, StrBig5, StrBIG5,
                   Strutf16, StrUTF16}
VersionValues == {None, Str2_0, Str1_2, <<51>>}

AttrsOf(encrypted, enc_name, sver) ==
    [a \in {n \in {"Encrypted", "Encoding", "GeneratedByEngineVersion"} :
               CASE n = "Encrypted" -> encrypted # None
                 [] n = "Encoding" -> enc_name # None
                 [] OTHER -> sver # None} |->
        CASE a = "Encrypted" -> encrypted
          [] a = "Encoding" -> enc_name
          [] OTHER -> sver]

\* two entries "a" and "A" in one key block or in two
KeyBlockChoices ==
    {<<RunsOf(<<<<97>>, <<65>>>>, <<<<120>>, <<89, 122, 0>>>>, 1, 0)>>,
     <<RunsOf(<<<<97>>>>, <<<<120>>>>, 1, 0), RunsOf(<<<<65>>>>, <<<<89, 122, 0>>>>, 1, 1)>>}

BaseDisk(blocks) == WellFormedDisk(ENCRYPT_NO_ENC, blocks, <<<<MediumCompSize, 4>>>>,
                                   MediumCompSize)

\* the same file written by an engine below 2.0: numbers are 4 bytes wide
\* and the key block header has no decompressed size
OldLayout(d) ==
    [d EXCEPT !.width = 4,
              !.key_header = <<d.key_header[1], d.key_header[2],
                               d.key_header[4], d.key_header[5]>>]

\* files that differ in their header attributes
AttrDisks ==
    {[BaseDisk(blocks) EXCEPT !.attrs = AttrsOf(encrypted, enc_name, Str2_0)] :
        blocks \in KeyBlockChoices, encrypted \in EncryptedValues,
        enc_name \in EncodingValues}

\* files of the engine versions; below 2.0 in the old layout
VersionDisks ==
    {IF IsV2(parse_version(IF sver = None THEN <<>> ELSE sver))
     THEN [BaseDisk(blocks) EXCEPT !.attrs = AttrsOf(encrypted, None, sver)]
     ELSE OldLayout([BaseDisk(blocks) EXCEPT !.attrs = AttrsOf(encrypted, None, sver)]) :
        blocks \in KeyBlockChoices, sver \in VersionValues,
        encrypted \in {StrNo, StrYes}}

\* files whose header does not convert from UTF-16, and a missing file
BrokenDisks ==
    {[BaseDisk(blocks) EXCEPT !.utf16ok = FALSE,
                              !.attrs = AttrsOf(encrypted, None, Str2_0)] :
        blocks \in KeyBlockChoices, encrypted \in {StrNo, StrYes}}
    \cup {[BaseDisk(blocks) EXCEPT !.present = FALSE] : blocks \in KeyBlockChoices}

\* files whose declared entries_num, descriptor counts or record section
\* count differ from the entries the key blocks hold by the given amounts
MiscountDisks ==
    {[BaseDisk(blocks) EXCEPT
         !.key_header[2] = @ + declared,
         !.info[1].entries = @ + described,
         !.record_info[2] = @ + recorded] :
        blocks \in KeyBlockChoices, declared \in {0, 1}, described \in {0, 1},
        recorded \in {0, 1}}

InitDisks == AttrDisks \cup VersionDisks \cup BrokenDisks \cup MiscountDisks

\* what the members that read_header sets may hold before it ran
UnsetMembers ==
    {[encrypt |-> e, version |-> v[1], number_width |-> v[2]] :
        e \in {ENCRYPT_NO_ENC, ENCRYPT_RECORD_ENC},
        v \in {<<2 * VersionUnit, 8>>, <<0, 4>>, <<0, 0>>}}

\* key blocks as they can be stored: zlib streams with a right or a wrong
\* checksum, stored bytes, LZO streams, a zlib stream under an unknown tag,
\* and bytes under the zlib tag that do not inflate
KeyBlockKinds ==
    {[comp_type |-> 2, body |-> "zlib", sound |-> TRUE],
     [comp_type |-> 2, body |-> "zlib", sound |-> FALSE],
     [comp_type |-> 0, body |-> "raw", sound |-> TRUE],
     [comp_type |-> 1, body |-> "lzo", sound |-> TRUE],
     [comp_type |-> 3, body |-> "zlib", sound |-> TRUE],
     [comp_type |-> 2, body |-> "raw", sound |-> TRUE]}

\* files that differ in how their key blocks are stored
TaggedDisks ==
    {[BaseDisk(blocks) EXCEPT !.key_blocks =
         [b \in 1..Len(blocks) |->
             [comp_type |-> kinds[b].comp_type, body |-> kinds[b].body,
              sound |-> kinds[b].sound, entries |-> blocks[b]]]] :
        blocks \in KeyBlockChoices, kinds \in [1..2 -> KeyBlockKinds]}

\* (compressed, decompressed) sizes of a block
SizePairs == {<<9, 4>>, <<19, 2>>, <<12, 30>>}

RECURSIVE CompressedTotal(_, _)
CompressedTotal(sizes, n) ==
    IF n = 0 THEN 0 ELSE sizes[n][1] + CompressedTotal(sizes, n - 1)

\* files that differ in the sizes of their key blocks and record blocks
SizedDisks ==
    {[WellFormedDisk(ENCRYPT_NO_ENC, blocks, sizes, CompressedTotal(sizes, Len(sizes)))
         EXCEPT !.info = [b \in 1..Len(blocks) |->
                             [@[b] EXCEPT !.comp_size = ks[b][1],
                                          !.decomp_size = ks[b][2]]]] :
        blocks \in KeyBlockChoices, ks \in [1..2 -> SizePairs],
        sizes \in UNION {[1..n -> SizePairs] : n \in 1..MaxBlocks}}

\* the object after its constructor, for one of the given files
Constructed(disks) ==
    /\ filetype \in {"MDX", "MDD"}
    /\ disk \in disks
    /\ file = <<StoredBlock(<<120, 89, 122, 0>>, "none")>>
    /\ phase = "constructed"
    /\ \E u \in UnsetMembers :
          /\ disk.utf16ok => u = [encrypt |-> ENCRYPT_NO_ENC, version |-> 0,
                                  number_width |-> 0]
          /\ encrypt = u.encrypt
          /\ version = u.version
          /\ number_width = u.number_width
    /\ encoding = ENCODING_UTF8
    /\ key_block_num = 0
    /\ entries_num = 0
    /\ key_block_info_list = <<>>
    /\ key_list = <<>>
    /\ record_header = <<>>
    /\ record_block_size = 0
    /\ InitQuery

InitConstructed == Constructed(InitDisks)

InitKeyBlocks == Constructed(TaggedDisks)

InitSized == Constructed(SizedDisks)

----------------------------------------------------------------------------
(* suggest.                                                                 *)

\* std::lower_bound over key_list with the comparator
\* tolower(item->key_word) < val
RECURSIVE LowerBoundLoop(_, _, _)
LowerBoundLoop(first, len, val) ==
    IF len <= 0 THEN first
    ELSE LET half == len \div 2
             mid == first + half
         IN IF StrLess(ToLowerStr(KeyAt(mid).key_word), val)
            THEN LowerBoundLoop(mid + 1, len - half - 1, val)
            ELSE LowerBoundLoop(first, half, val)

\* the cap tested with > instead of >=
CapReachedLate(suggestions) == Len(suggestions) > max_suggestions

\* suggestions.size() >= max_suggestions
CapReached(suggestions) == Len(suggestions) >= max_suggestions

\* the for loop of suggest from the lower bound
RECURSIVE SuggestLoop(_, _, _)
SuggestLoop(it, prefix, suggestions) ==
    IF it >= KeyCount THEN suggestions
    ELSE LET key == KeyAt(it).key_word
             lower_key == ToLowerStr(key)
         IN IF StartsWith(lower_key, prefix)
            THEN LET pushed == Append(suggestions, [idx |-> it, key |-> key])
                 IN IF CapReached(pushed) THEN pushed
                    ELSE SuggestLoop(it + 1, prefix, pushed)
            ELSE IF StrLess(prefix, lower_key) THEN suggestions
            ELSE SuggestLoop(it + 1, prefix, suggestions)

\* std::vector<std::string> Mdict::suggest(const std::string word)
suggest(word) ==
    IF word = <<>> THEN <<>>
    ELSE LET prefix == ToLowerStr(word)
         IN SuggestLoop(LowerBoundLoop(0, KeyCount, prefix), prefix, <<>>)

----------------------------------------------------------------------------
(* fulltext_search.                                                         *)

\* utf8_to_wstring(str), from byte position i
RECURSIVE Utf8From(_, _)
Utf8From(str, i) ==
    LET len == Len(str) IN
    IF i >= len THEN <<>>
    ELSE LET c == str[i + 1] IN
         IF c < 128 THEN <<c>> \o Utf8From(str, i + 1)
         ELSE IF c \div 32 = 6
              THEN IF i + 1 < len
                   THEN <<(c % 32) * 64 + (str[i + 2] % 64)>> \o Utf8From(str, i + 2)
                   ELSE <<>>
         ELSE IF c \div 16 = 14
              THEN IF i + 2 < len
                   THEN <<(c % 16) * 4096 + (str[i + 2] % 64) * 64 + (str[i + 3] % 64)>>
                        \o Utf8From(str, i + 3)
                   ELSE <<>>
         ELSE IF c \div 8 = 30
              THEN IF i + 3 < len
                   THEN <<(c % 8) * 262144 + (str[i + 2] % 64) * 4096
                          + (str[i + 3] % 64) * 64 + (str[i + 4] % 64)>>
                        \o Utf8From(str, i + 4)
                   ELSE <<>>
         ELSE Utf8From(str, i + 1)

utf8_to_wstring(str) == Utf8From(str, 0)

\* std::transform(w.begin(), w.end(), w.begin(), ::towlower)
ToLowerWide(w) == [i \in 1..Len(w) |-> tolower(w[i])]

\* the report made after every fifth block instead of before it
ProgressDueAfter(progress_callback, rid) == progress_callback /\ (rid + 1) % 5 = 0

\* progress_callback && rid % 5 == 0
ProgressDue(progress_callback, rid) == progress_callback /\ rid % 5 = 0

ProgressEvent(rid, total_blocks) ==
    [type |-> "progress", rid |-> rid, num |-> rid, den |-> total_blocks]

\* the catch clauses leaving the loop instead of continuing
AfterDecodeErrorBreak(rid, total_blocks) == total_blocks

\* the block the loop turns to after the catch clauses: continue
AfterDecodeError(rid, total_blocks) == rid + 1

\* the loop over block_entries; stops at the entry that fills the list
RECURSIVE FulltextEntries(_, _, _, _)
FulltextEntries(block_entries, k, wquery, suggestions) ==
    IF k > Len(block_entries) THEN suggestions
    ELSE LET wdef == ToLowerWide(utf8_to_wstring(block_entries[k].second))
         IN IF Contains(wdef, wquery)
            THEN LET pushed == Append(suggestions,
                                      [idx |-> block_entries[k].idx,
                                       key |-> block_entries[k].first])
                 IN IF CapReached(pushed) THEN pushed
                    ELSE FulltextEntries(block_entries, k + 1, wquery, pushed)
            ELSE FulltextEntries(block_entries, k + 1, wquery, suggestions)

\* the loop over the record blocks: FulltextBlocks is the loop head with the
\* progress report, FulltextDecoded the try block once the block is decoded,
\* FulltextScanned the code after the scan of its entries
RECURSIVE FulltextBlocks(_, _, _, _, _, _)
RECURSIVE FulltextDecoded(_, _, _, _, _, _, _)
RECURSIVE FulltextScanned(_, _, _, _, _, _)
FulltextBlocks(rid, wquery, progress_callback, g, suggestions, evs) ==
    LET total_blocks == Len(record_header) IN
    IF rid >= total_blocks THEN [suggestions |-> suggestions, events |-> evs]
    ELSE FulltextDecoded(rid, wquery, progress_callback, g, suggestions,
                         IF ProgressDue(progress_callback, rid)
                         THEN Append(evs, ProgressEvent(rid, total_blocks))
                         ELSE evs,
                         decode_record_block_by_rid(rid, g))

FulltextDecoded(rid, wquery, progress_callback, g, suggestions, evs, d) ==
    IF d.err # ""
    THEN FulltextBlocks(AfterDecodeError(rid, Len(record_header)), wquery,
                        progress_callback, g, suggestions,
                        Append(evs, DecodeEvent(rid, d.err)))
    ELSE FulltextScanned(rid, wquery, progress_callback, g,
                         FulltextEntries(d.vec, 1, wquery, suggestions),
                         Append(evs, DecodeEvent(rid, d.err)))

FulltextScanned(rid, wquery, progress_callback, g, found, evs) ==
    IF CapReached(found) THEN [suggestions |-> found, events |-> evs]
    ELSE FulltextBlocks(rid + 1, wquery, progress_callback, g, found, evs)

\* Mdict::fulltext_search(query, progress_callback)
fulltext_search(query, progress_callback, g) ==
    FulltextBlocks(0, ToLowerWide(utf8_to_wstring(query)), progress_callback, g,
                   <<>>, <<>>)

----------------------------------------------------------------------------
(* regex_suggest.                                                           *)

\* the characters at which the scan for the '^' prefix stops:
\* . * + ? ( ) [ ] { } | \ $
PrefixStops == {46, 42, 43, 63, 40, 41, 91, 93, 123, 125, 124, 92, 36}

\* the characters that end a literal run: the above and ^
LiteralStops == PrefixStops \cup {94}

\* the while loop that collects start_prefix from regex_str[i]
RECURSIVE StartPrefixFrom(_, _)
StartPrefixFrom(regex_str, i) ==
    IF i >= Len(regex_str) THEN <<>>
    ELSE IF regex_str[i + 1] \in PrefixStops THEN <<>>
    ELSE <<regex_str[i + 1]>> \o StartPrefixFrom(regex_str, i + 1)

\* the for loop that keeps the first longest literal run
RECURSIVE LongestLiteral(_, _, _, _)
LongestLiteral(regex_str, i, current_literal, required_substring) ==
    IF i > Len(regex_str)
    THEN IF Len(current_literal) > Len(required_substring)
         THEN current_literal ELSE required_substring
    ELSE IF regex_str[i] \in LiteralStops
         THEN LongestLiteral(regex_str, i + 1, <<>>,
                             IF Len(current_literal) > Len(required_substring)
                             THEN current_literal ELSE required_substring)
         ELSE LongestLiteral(regex_str, i + 1,
                             Append(current_literal, regex_str[i]), required_substring)

(* std::wregex(pattern, icase), ECMAScript grammar, for the patterns the    *)
(* model uses: literals, '.', the quantifiers * + ? (optionally lazy), the  *)
(* assertions ^ and $, and alternation.  Any other special character makes  *)
(* the pattern one the model does not compile; the only such pattern in     *)
(* Patterns is the lone "(", which the constructor rejects with             *)
(* regex_error.                                                             *)
Quantifiers == {42, 43, 63}
Unsupported == {40, 41, 91, 93, 123, 125, 92}

\* the pattern split at '|'
RECURSIVE SplitAlternatives(_, _, _)
SplitAlternatives(w, i, current) ==
    IF i > Len(w) THEN <<current>>
    ELSE IF w[i] = 124 THEN <<current>> \o SplitAlternatives(w, i + 1, <<>>)
    ELSE SplitAlternatives(w, i + 1, Append(current, w[i]))

\* the terms of one alternative; a quantifier with nothing to repeat yields
\* a term of kind "bad"
RECURSIVE ParseTerms(_, _)
ParseTerms(a, i) ==
    IF i > Len(a) THEN <<>>
    ELSE LET c == a[i] IN
         IF c = 94 THEN <<[kind |-> "bol", c |-> c, q |-> 0]>> \o ParseTerms(a, i + 1)
         ELSE IF c = 36 THEN <<[kind |-> "eol", c |-> c, q |-> 0]>> \o ParseTerms(a, i + 1)
         ELSE IF c \in Quantifiers \cup Unsupported
              THEN <<[kind |-> "bad", c |-> c, q |-> 0]>>
         ELSE LET hasq == i + 1 <= Len(a) /\ a[i + 1] \in Quantifiers
                  lazy == hasq /\ i + 2 <= Len(a) /\ a[i + 2] = 63
              IN <<[kind |-> IF c = 46 THEN "any" ELSE "char", c |-> c,
                    q |-> IF hasq THEN a[i + 1] ELSE 0]>>
                 \o ParseTerms(a, i + 1 + (IF hasq THEN 1 ELSE 0)
                                        + (IF lazy THEN 1 ELSE 0))

AlternativesOf(w) ==
    LET parts == SplitAlternatives(w, 1, <<>>)
    IN [k \in 1..Len(parts) |-> ParseTerms(parts[k], 1)]

\* re = std::wregex(wregex_str, icase): err when regex_error is thrown
Compiled(alts) ==
    [err |-> \E k \in 1..Len(alts) : \E t \in 1..Len(alts[k]) : alts[k][t].kind = "bad",
     alts |-> alts]

wregex(wregex_str) == Compiled(AlternativesOf(wregex_str))

\* one character against an atom, case folded; '.' takes all but line ends
AtomMatches(term, ch) ==
    IF term.kind = "any" THEN ch \notin {10, 13, 8232, 8233}
    ELSE tolower(term.c) = tolower(ch)

\* whether terms[t..] match w from position pos (0-based) on
RECURSIVE MatchTerms(_, _, _, _)
MatchTerms(terms, t, w, pos) ==
    IF t > Len(terms) THEN TRUE
    ELSE IF terms[t].kind = "bol" THEN pos = 0 /\ MatchTerms(terms, t + 1, w, pos)
    ELSE IF terms[t].kind = "eol" THEN pos = Len(w) /\ MatchTerms(terms, t + 1, w, pos)
    ELSE LET lo == IF terms[t].q \in {42, 63} THEN 0 ELSE 1
             hi == IF terms[t].q \in {42, 43} THEN Len(w) - pos
                   ELSE Min(1, Len(w) - pos)
         IN \E n \in lo..hi :
               /\ \A k \in 1..n : AtomMatches(terms[t], w[pos + k])
               /\ MatchTerms(terms, t + 1, w, pos + n)

\* std::regex_search(wkey, re)
regex_search(wkey, re) ==
    \E k \in 1..Len(re.alts) : \E pos \in 0..Len(wkey) :
        MatchTerms(re.alts[k], 1, wkey, pos)

\* the final check: regex_search(utf8_to_wstring(key), re)
RegexHitUnchecked(key, re) == TRUE

RegexHit(key, re) == regex_search(utf8_to_wstring(key), re)

\* checked_count > 20000
CheckLimitReached(checked_count) == checked_count > RegexCheckLimit

\* the rest of one iteration once the regex has run on the key
RegexChecked(st, key, hit) ==
    IF hit /\ CapReached(Append(st.suggestions, [idx |-> st.it, key |-> key]))
    THEN [st EXCEPT !.suggestions = Append(@, [idx |-> st.it, key |-> key]),
                    !.visited = @ + 1, !.done = TRUE]
    ELSE [st EXCEPT !.suggestions = IF hit THEN Append(@, [idx |-> st.it, key |-> key])
                                    ELSE @,
                    !.visited = @ + 1,
                    !.checked_count = @ + 1,
                    !.it = @ + 1,
                    !.done = CheckLimitReached(st.checked_count + 1)]

\* one iteration of the for loop of regex_suggest
RegexIteration(st, cx, key_lower) ==
    IF cx.anchored /\ ~StartsWith(key_lower, cx.start_prefix_lower)
    THEN IF StrLess(cx.start_prefix_lower, key_lower)
         THEN [st EXCEPT !.visited = @ + 1, !.done = TRUE]
         ELSE [st EXCEPT !.visited = @ + 1, !.it = @ + 1]
    ELSE IF cx.required_substring_lower # <<>>
            /\ ~Contains(key_lower, cx.required_substring_lower)
         THEN [st EXCEPT !.visited = @ + 1, !.it = @ + 1]
    ELSE RegexChecked(st, KeyAt(st.it).key_word, RegexHit(KeyAt(st.it).key_word, cx.re))

RegexStep(st, cx) ==
    IF st.it >= KeyCount THEN [st EXCEPT !.done = TRUE]
    ELSE RegexIteration(st, cx, ToLowerStr(KeyAt(st.it).key_word))

\* the for loop, evaluated in nested runs of ChunkLen iterations: a run of
\* level 0 takes single iterations, a run of level n takes runs of level n-1
RECURSIVE RegexRun(_, _, _, _)
RegexRun(st, cx, level, n) ==
    IF n = 0 \/ st.done THEN st
    ELSE RegexRun(IF level = 0 THEN RegexStep(st, cx)
                  ELSE RegexRun(st, cx, level - 1, ChunkLen),
                  cx, level, n - 1)

RECURSIVE RegexLoop(_, _)
RegexLoop(st, cx) ==
    IF st.done THEN st ELSE RegexLoop(RegexRun(st, cx, 2, ChunkLen), cx)

RegexScan(cx) ==
    RegexLoop([it |-> IF cx.anchored
                      THEN LowerBoundLoop(0, KeyCount, cx.start_prefix_lower)
                      ELSE 0,
               checked_count |-> 0, visited |-> 0, suggestions |-> <<>>,
               done |-> FALSE], cx)

NoScan == [it |-> 0, checked_count |-> 0, visited |-> 0, suggestions |-> <<>>,
           done |-> TRUE]

RegexPrepared(regex_str, start_prefix, required_substring, re) ==
    IF re.err THEN NoScan
    ELSE RegexScan([anchored |-> regex_str[1] = 94 /\ start_prefix # <<>>,
                    start_prefix_lower |-> ToLowerStr(start_prefix),
                    required_substring_lower |-> ToLowerStr(required_substring),
                    re |-> re])

\* std::vector<std::string> Mdict::regex_suggest(const std::string regex_str)
regex_suggest(regex_str) ==
    IF regex_str = <<>> THEN NoScan
    ELSE RegexPrepared(regex_str,
                       IF regex_str[1] = 94 THEN StartPrefixFrom(regex_str, 1) ELSE <<>>,
                       LongestLiteral(regex_str, 1, <<>>, <<>>),
                       wregex(utf8_to_wstring(regex_str)))

ScanEvent(visited, checked_count) ==
    [type |-> "scan", visited |-> visited, checked_count |-> checked_count]

----------------------------------------------------------------------------
(* get_match_count.                                                         *)

\* std::lower_bound(key_list.begin(), key_list.end(), key,
\*                  item->key_word < k)
RECURSIVE RawLowerBoundLoop(_, _, _)
RawLowerBoundLoop(first, len, key) ==
    IF len <= 0 THEN first
    ELSE LET half == len \div 2
             mid == first + half
         IN IF StrLess(KeyAt(mid).key_word, key)
            THEN RawLowerBoundLoop(mid + 1, len - half - 1, key)
            ELSE RawLowerBoundLoop(first, half, key)

\* while (it != key_list.end() && (*it)->key_word == key) { count++; it++; }
RECURSIVE CountAdjacent(_, _, _)
CountAdjacent(it, key, count) ==
    IF it < KeyCount /\ KeyAt(it).key_word = key
    THEN CountAdjacent(it + 1, key, count + 1)
    ELSE count

MatchCountFrom(it, key) ==
    IF it = KeyCount \/ KeyAt(it).key_word # key THEN 0
    ELSE CountAdjacent(it, key, 0)

\* int32_t Mdict::get_match_count(const std::string& key)
get_match_count(key) == MatchCountFrom(RawLowerBoundLoop(0, KeyCount, key), key)

----------------------------------------------------------------------------
(* Actions.                                                                 *)

\* Returned, but a query whose block failed to decode drops the record index
ReturnedReleasing(name, argument, vals, idxs, evs) ==
    /\ op' = name
    /\ arg' = argument
    /\ result' = vals
    /\ emitted' = idxs
    /\ events' = evs
    /\ raised' = FALSE
    /\ file_pos' = CursorAfter(evs)
    /\ record_header' = IF \E k \in 1..Len(evs) : evs[k].type = "decode" /\ evs[k].err # ""
                        THEN <<>> ELSE record_header
    /\ UNCHANGED <<filetype, encrypt, key_list, record_block_size, file, disk, phase,
                   encoding, version, number_width, key_block_num, entries_num,
                   key_block_info_list, calls, split>>

\* the query's outcome as the caller sees it
Returned(name, argument, vals, idxs, evs) ==
    /\ op' = name
    /\ arg' = argument
    /\ result' = vals
    /\ emitted' = idxs
    /\ events' = evs
    /\ raised' = FALSE
    /\ file_pos' = CursorAfter(evs)
    /\ UNCHANGED <<dictvars, calls, split>>

LookupReturned(word, r) == Returned("lookup", word, r.vals, r.idxs, r.events)

\* lookup(word); the catch at the end of lookup swallows every exception
Lookup(word, g) == LookupReturned(word, lookup(word, g))

SuggestReturned(word, r) == Returned("suggest", word, KeysOf(r), IdxsOf(r), <<>>)

Suggest(word) == SuggestReturned(word, suggest(word))

FulltextReturned(query, progress_callback, r) ==
    Returned("fulltext_search", <<query, progress_callback>>,
             KeysOf(r.suggestions), IdxsOf(r.suggestions), r.events)

\* arg keeps the query and whether a callback was passed
FulltextSearch(query, progress_callback, g) ==
    FulltextReturned(query, progress_callback,
                     fulltext_search(query, progress_callback, g))

RegexReturned(regex_str, r) ==
    Returned("regex_suggest", regex_str, KeysOf(r.suggestions), IdxsOf(r.suggestions),
             <<ScanEvent(r.visited, r.checked_count)>>)

RegexSuggest(regex_str) == RegexReturned(regex_str, regex_suggest(regex_str))

\* locate has no try block: an exception of the decoder reaches the caller
LocateReturned(resource_name, r) ==
    /\ op' = "locate"
    /\ arg' = resource_name
    /\ result' = r.val
    /\ emitted' = r.idxs
    /\ events' = r.events
    /\ raised' = (r.err # "")
    /\ file_pos' = CursorAfter(r.events)
    /\ UNCHANGED <<dictvars, calls, split>>

\* locate(resource_name, MDICT_ENCODING_HEX)
Locate(resource_name, g) == LocateReturned(resource_name, locate(resource_name, g))

----------------------------------------------------------------------------
(* File offsets and lengths of read_key_block_info.  A 64-bit value is the  *)
(* sequence of its four 16-bit limbs, most significant first, so that the   *)
(* conversions to uint32_t and to int act on the bits they act on in the    *)
(* program.                                                                 *)

LimbSpan == 65536

\* uint64_t a + b
Add64(a, b) ==
    LET s4 == a[4] + b[4]
        s3 == a[3] + b[3] + s4 \div LimbSpan
        s2 == a[2] + b[2] + s3 \div LimbSpan
        s1 == a[1] + b[1] + s2 \div LimbSpan
    IN <<s1 % LimbSpan, s2 % LimbSpan, s3 % LimbSpan, s4 % LimbSpan>>

\* static_cast<uint32_t>(v), stored in a 64-bit member
ToUint32(v) == <<0, 0, v[3], v[4]>>

\* static_cast<int>(v) handed to the uint64_t parameter len of readfile: the
\* low 32 bits, sign-extended
IntToUint64(v) ==
    IF v[3] >= LimbSpan \div 2
    THEN <<LimbSpan - 1, LimbSpan - 1, v[3], v[4]>>
    ELSE <<0, 0, v[3], v[4]>>

\* the offset and the length of the readfile that fetches the key blocks
KeyBlockRead(key_block_info_start_offset, key_block_info_size, key_block_size) ==
    <<ToUint32(Add64(key_block_info_start_offset, key_block_info_size)),
      IntToUint64(key_block_size)>>

----------------------------------------------------------------------------
(* split_key_block, one iteration of its while loop at a time.              *)

\* be_bin_to_u64 / be_bin_to_u32 at key_block + pos, kept below ULongSpan
RECURSIVE BeBinFrom(_, _, _, _, _)
BeBinFrom(buf, g, pos, n, acc) ==
    IF n = 0 THEN acc
    ELSE BeBinFrom(buf, g, pos + 1, n - 1,
                   (acc % (ULongSpan \div 256)) * 256 + Mem(buf, g, pos))

\* the delimiter test of the inner loop
IsTerminator(key_block, g, i) ==
    IF encoding = ENCODING_UTF16
    THEN Mem(key_block, g, i) = 0 /\ Mem(key_block, g, i + 1) = 0
    ELSE Mem(key_block, g, i) = 0

\* the inner while loop: key_end_idx when it is left
RECURSIVE ScanKey(_, _, _, _, _, _)
ScanKey(key_block, g, i, key_block_len, width, key_end_idx) ==
    IF i >= key_block_len THEN key_end_idx
    ELSE IF IsTerminator(key_block, g, i) THEN i
    ELSE ScanKey(key_block, g, i + width, key_block_len, width, key_end_idx)

\* be_bin_to_utf16, hex_to_bytes and utf16le_to_utf8 on code units below
\* the surrogates
RECURSIVE Utf16leToUtf8(_, _, _, _)
Utf16leToUtf8(buf, g, offset, len) ==
    IF len < 2 THEN <<>>
    ELSE LET cu == Mem(buf, g, offset) + 256 * Mem(buf, g, offset + 1)
             ch == IF cu < 128 THEN <<cu>>
                   ELSE IF cu < 2048 THEN <<192 + (cu \div 64), 128 + (cu % 64)>>
                   ELSE <<224 + (cu \div 4096), 128 + ((cu \div 64) % 64),
                          128 + (cu % 64)>>
         IN ch \o Utf16leToUtf8(buf, g, offset + 2, len - 2)

\* key_text of the entry
KeyText(key_block, g, offset, len) ==
    IF encoding = ENCODING_UTF16 THEN Utf16leToUtf8(key_block, g, offset, len)
    ELSE IF encoding = ENCODING_UTF8 THEN be_bin_to_utf8(key_block, g, offset, len)
    ELSE <<>>

\* the body of the outer while loop for the locals c.  The key length is an
\* int that is cast to unsigned long: a negative one asks the conversion
\* for close to 2^64 bytes, which ends in an exception or kills the process
\* (huge says which).
SplitBody(c, g, huge) ==
    LET key_block_len == Len(c.key_block)
        width == IF encoding = ENCODING_UTF16 THEN 2 ELSE 1
        record_start == BeBinFrom(c.key_block, g, c.key_start_idx,
                                  IF IsV2(version) THEN 8 ELSE 4, 0)
        i == c.key_start_idx + number_width
        scanned == ScanKey(c.key_block, g, i, key_block_len, width, c.key_end_idx)
        key_end_idx == IF scanned >= key_block_len THEN key_block_len ELSE scanned
        key_len == key_end_idx - c.key_start_idx - number_width
    IN IF i >= key_block_len
       THEN [c EXCEPT !.pc = "failed", !.err = "key start idx > key block length"]
       ELSE IF key_len < 0
       THEN [c EXCEPT !.pc = IF huge = "throw" THEN "failed" ELSE "aborted",
                      !.key_end_idx = key_end_idx,
                      !.key_len = key_len,
                      !.err = "key length"]
       ELSE [c EXCEPT !.key_end_idx = key_end_idx,
                      !.key_len = key_len,
                      !.inner_key_list =
                          Append(@, [record_start |-> record_start,
                                     key_word |-> KeyText(c.key_block, g, i, key_len)]),
                      !.key_start_idx = key_end_idx + width]

\* split_key_block(key_block, key_block_len, block_id) is entered
SplitKeyBlock(key_block) ==
    /\ split.pc = "idle"
    /\ split' = [NotSplitting EXCEPT !.pc = "scan", !.key_block = key_block]
    /\ UNCHANGED <<dictvars, queryvars, file_pos, calls>>

\* one test of while (key_start_idx < key_block_len) and, when it holds,
\* one run of the body
SplitIteration(g, huge) ==
    /\ split.pc = "scan"
    /\ split' = IF split.key_start_idx < Len(split.key_block)
                THEN SplitBody(split, g, huge)
                ELSE [split EXCEPT !.pc = "done"]
    /\ UNCHANGED <<dictvars, queryvars, file_pos, calls>>

----------------------------------------------------------------------------
(* lookup called from several threads on one Mdict. Neither lookupNative    *)
(* nor lookup nor readfile takes a lock; fseeko and fread each lock the     *)
(* FILE for the length of the one call.                                     *)

\* the record block that starts at the cursor
AtCursor == {rid \in 0..(Len(record_header) - 1) : BlockOffset(rid) = file_pos}

\* what fread leaves in record_block_cmp_buffer: the block at the cursor, or
\* at the end of the file the zeros the vector was made with
BufferRead ==
    IF AtCursor = {} THEN [comp_type |-> 0, checksum |-> 0, inflated |-> <<>>]
    ELSE file[(CHOOSE rid \in AtCursor : TRUE) + 1]

\* lookup up to its first decode_record_block_by_rid
CallLookup(t, word) ==
    /\ calls[t].pc = "idle"
    /\ calls' = [calls EXCEPT ![t] =
                    [IdleCall EXCEPT !.pc = IF RecordBlockMapKeys(word) = {}
                                            THEN "done" ELSE "seek",
                                     !.word = word,
                                     !.rids = RecordBlockMapKeys(word)]]
    /\ UNCHANGED <<dictvars, queryvars, file_pos, split>>

\* readfile: fseeko(file_ptr, offset, SEEK_SET)
Seek(t) ==
    /\ calls[t].pc = "seek"
    /\ file_pos' = BlockOffset(SetMin(calls[t].rids))
    /\ calls' = [calls EXCEPT ![t].pc = "read",
                              ![t].want = BlockOffset(SetMin(calls[t].rids)),
                              ![t].from = -1]
    /\ UNCHANGED <<dictvars, queryvars, split>>

\* the loop body of lookup once the block is decoded
Decoded(c, record_idx, d) ==
    IF d.err # ""
    THEN [c EXCEPT !.pc = "done",
                   !.from = file_pos,
                   !.acc = [vals |-> <<>>, idxs |-> <<>>,
                            events |-> Append(c.acc.events,
                                              DecodeEvent(record_idx, d.err))]]
    ELSE [c EXCEPT !.pc = IF c.rids = {record_idx} THEN "done" ELSE "seek",
                   !.from = file_pos,
                   !.rids = c.rids \ {record_idx},
                   !.acc = [vals |-> c.acc.vals
                                \o SecondsOf(reduce_particial_keys_vector(d.vec, c.word)),
                            idxs |-> c.acc.idxs
                                \o IdxsOf(reduce_particial_keys_vector(d.vec, c.word)),
                            events |-> Append(c.acc.events,
                                              DecodeEvent(record_idx, ""))]]

\* readfile: fread(buf, 1, len, file_ptr), then the rest of
\* decode_record_block_by_rid and of the loop body
Read(t, g) ==
    /\ calls[t].pc = "read"
    /\ file_pos' = IF AtCursor = {} THEN file_pos
                   ELSE file_pos + RecordHeaderAt(SetMin(calls[t].rids)).compressed_size
    /\ calls' = [calls EXCEPT ![t] =
                    Decoded(calls[t], SetMin(calls[t].rids),
                            DecodeRecordBlock(SetMin(calls[t].rids), BufferRead, g))]
    /\ UNCHANGED <<dictvars, queryvars, split>>

\* lookup returns to its caller
ReturnLookup(t) ==
    /\ calls[t].pc = "done"
    /\ op' = "lookup"
    /\ arg' = calls[t].word
    /\ result' = calls[t].acc.vals
    /\ emitted' = calls[t].acc.idxs
    /\ events' = calls[t].acc.events
    /\ raised' = FALSE
    /\ calls' = [calls EXCEPT ![t] = IdleCall]
    /\ UNCHANGED <<dictvars, file_pos, split>>

\* the members as init() finds them
Members ==
    [encrypt |-> encrypt, version |-> version, number_width |-> number_width,
     encoding |-> encoding, key_block_num |-> key_block_num,
     entries_num |-> entries_num, key_block_info_decompress_size |-> 0,
     key_block_info_size |-> 0, key_block_size |-> 0,
     key_block_info_list |-> key_block_info_list, key_list |-> key_list,
     record_header |-> record_header, record_block_number |-> 0,
     record_block_entries_number |-> 0, record_block_header_size |-> 0,
     record_block_size |-> record_block_size]

InitEnded(r) ==
    /\ phase' = IF r.err = "" THEN "ready"
                ELSE IF r.kind = "throw" THEN "failed" ELSE "aborted"
    /\ encrypt' = r.st.encrypt
    /\ version' = r.st.version
    /\ number_width' = r.st.number_width
    /\ encoding' = r.st.encoding
    /\ key_block_num' = r.st.key_block_num
    /\ entries_num' = r.st.entries_num
    /\ key_block_info_list' = r.st.key_block_info_list
    /\ key_list' = r.st.key_list
    /\ record_header' = r.st.record_header
    /\ record_block_size' = r.st.record_block_size
    /\ op' = "init"
    /\ arg' = <<>>
    /\ result' = r.err
    /\ emitted' = <<>>
    /\ raised' = (r.kind = "throw")
    /\ events' = r.warnings
    /\ file_pos' = 0
    /\ UNCHANGED <<filetype, file, disk, calls, split>>

\* init() in a build with assertions compiled in or out
InitDict(asserts) ==
    /\ phase = "constructed"
    /\ InitEnded(init(disk, filetype, Members, asserts))

\* reduce_record_block_offset(key_list[i]->record_start)
ReduceRecordBlockOffset(i) ==
    Returned("reduce_record_block_offset", i,
             reduce_record_block_offset(KeyAt(i).record_start), <<>>, <<>>)

GetMatchCount(key) ==
    Returned("get_match_count", key, get_match_count(key), <<>>, <<>>)

\* _s(word), and _s applied to what it returned
Normalize(word) == Returned("_s", word, _s(word), <<>>, <<>>)

NormalizeAgain == op = "_s" /\ Normalize(result)

Next ==
    \E word \in LookupWords, g \in Garbage : Lookup(word, g)

Spec == Init /\ [][Next]_vars

NextSuggest ==
    \E word \in Prefixes : Suggest(word)

SpecSuggest == InitSuggest /\ [][NextSuggest]_vars

NextFulltext ==
    \E query \in Queries, progress_callback \in BOOLEAN, g \in Garbage :
        FulltextSearch(query, progress_callback, g)

SpecFulltext == InitFulltext /\ [][NextFulltext]_vars

InitCount == (InitSmall({"MDX"}, {"none"}) \/ InitMedium({"none"})) /\ InitQuery

NextCount ==
    \E key \in LookupWords : GetMatchCount(key)

SpecCount == InitCount /\ [][NextCount]_vars

\* _s reads nothing of the dictionary: one small dictionary is open
InitNormalize ==
    /\ OpenedAs("MDX", ENCRYPT_NO_ENC, RunsOf(<<<<97>>>>, <<<<120>>>>, 1, 0),
                <<<<120>>>>, MediumCompSize, 1, "none")
    /\ InitQuery

NextNormalize ==
    \/ \E word \in NormalizeWords : Normalize(word)
    \/ NormalizeAgain

SpecNormalize == InitNormalize /\ [][NextNormalize]_vars

NextInit ==
    \E asserts \in BOOLEAN : InitDict(asserts)

SpecInit == InitConstructed /\ [][NextInit]_vars

InitDirectory == (InitSmall({"MDX"}, {"none"}) \/ InitMedium({"none"})) /\ InitQuery

NextDirectory ==
    \E i \in 0..(KeyCount - 1) : ReduceRecordBlockOffset(i)

SpecDirectory == InitDirectory /\ [][NextDirectory]_vars

\* split_key_block reads version, number_width and encoding of the
\* dictionary and nothing else
InitSplit ==
    /\ \E ft \in {"MDX", "MDD"} :
          OpenedAs(ft, ENCRYPT_NO_ENC, RunsOf(<<<<97>>>>, <<<<120>>>>, 1, 0),
                   <<<<120>>>>, MediumCompSize, 1, "none")
    /\ InitQuery

NextSplit ==
    \/ \E key_block \in SplitBlocks(filetype) : SplitKeyBlock(key_block)
    \/ \E g \in Garbage, huge \in {"throw", "abort"} : SplitIteration(g, huge)

SpecSplit == InitSplit /\ [][NextSplit]_vars

SpecSized == InitSized /\ [][NextInit]_vars

SpecKeyBlocks == InitKeyBlocks /\ [][NextInit]_vars

\* read_key_block_info: where and how much the read of the key blocks asks for
ReadKeyBlockInfo(start, info_size, size) ==
    Returned("read_key_block_info", <<start, info_size, size>>,
             KeyBlockRead(start, info_size, size), <<>>, <<>>)

InitOffsets == InitSplit

NextOffsets ==
    \E start \in StartOffsets, info_size \in InfoSizes, size \in BlockSizes :
        ReadKeyBlockInfo(start, info_size, size)

SpecOffsets == InitOffsets /\ [][NextOffsets]_vars

\* what the file source does with one readfile: "absent" no handle,
\* "seekfail" fseeko fails, "eof" fread delivers nothing, "short" fread
\* delivers the tag, the checksum and a cut stream
ReadOutcomes == {"full", "absent", "seekfail", "eof", "short"}

\* record_block_cmp_buffer(comp_size) before anything is read into it
Unfilled == [comp_type |-> 0, checksum |-> 0, inflated |-> <<>>]

\* record_block_cmp_buffer after readfile(record_offset + comp_accu,
\* comp_size, buf); readfile returns nothing to its caller
readfile(rid, outcome) ==
    CASE outcome = "full" -> file[rid + 1]
      [] outcome = "seekfail" -> BufferRead
      [] outcome = "short" -> [file[rid + 1] EXCEPT !.inflated = <<>>]
      [] OTHER -> Unfilled

\* the cursor after that readfile
ReadFilePos(rid, outcome) ==
    CASE outcome = "full" -> BlockEnd(rid)
      [] outcome = "seekfail" ->
            IF AtCursor = {} THEN file_pos
            ELSE file_pos + RecordHeaderAt(rid).compressed_size
      [] outcome = "absent" -> file_pos
      [] OTHER -> BlockOffset(rid)

\* decode_record_block_by_rid(rid) on a file source that behaves as outcome
DecodeRecordBlockByRid(rid, g, outcome) ==
    LET d == DecodeRecordBlock(rid, readfile(rid, outcome), g) IN
    /\ op' = "decode_record_block_by_rid"
    /\ arg' = <<rid, outcome>>
    /\ result' = SecondsOf(d.vec)
    /\ emitted' = IdxsOf(d.vec)
    /\ events' = <<DecodeEvent(rid, d.err)>>
    /\ raised' = (d.err # "")
    /\ file_pos' = ReadFilePos(rid, outcome)
    /\ UNCHANGED <<dictvars, calls, split>>

InitFaulty == InitDamaged /\ InitQuery

NextFaulty ==
    \E rid \in 0..(Len(record_header) - 1), g \in Garbage, outcome \in ReadOutcomes :
        DecodeRecordBlockByRid(rid, g, outcome)

SpecFaulty == InitFaulty /\ [][NextFaulty]_vars

InitLocate == InitResource /\ InitQuery

NextLocate ==
    \E resource_name \in ResourceNames, g \in Garbage : Locate(resource_name, g)

SpecLocate == InitLocate /\ [][NextLocate]_vars

InitShared == InitSharedDict /\ InitQuery

NextShared ==
    \/ \E t \in Threads, word \in SharedWords : CallLookup(t, word)
    \/ \E t \in Threads : Seek(t)
    \/ \E t \in Threads, g \in Garbage : Read(t, g)
    \/ \E t \in Threads : ReturnLookup(t)

SpecShared == InitShared /\ [][NextShared]_vars

\* a dictionary object from its constructor on, or one that init() has
\* opened over sound or damaged record blocks
InitQueries == InitConstructed \/ (InitDamaged /\ InitQuery)

\* init(), and every query once init() has returned normally
NextQueries ==
    \/ \E asserts \in BOOLEAN : InitDict(asserts)
    \/ phase = "ready" /\ \E word \in LookupWords, g \in Garbage : Lookup(word, g)
    \/ phase = "ready"
        /\ \E resource_name \in ResourceNames \cup LookupWords, g \in Garbage :
              Locate(resource_name, g)
    \/ phase = "ready" /\ \E key \in LookupWords : GetMatchCount(key)
    \/ phase = "ready" /\ \E word \in Prefixes : Suggest(word)
    \/ phase = "ready" /\ \E regex_str \in Patterns : RegexSuggest(regex_str)
    \/ phase = "ready"
        /\ \E query \in Queries, progress_callback \in BOOLEAN, g \in Garbage :
              FulltextSearch(query, progress_callback, g)

SpecQueries == InitQueries /\ [][NextQueries]_vars

NextRegex ==
    \E regex_str \in Patterns : RegexSuggest(regex_str)

SpecRegex == InitRegex /\ [][NextRegex]_vars

----------------------------------------------------------------------------
(* What the file holds, read off the file and the record directory          *)
(* independently of the decoder.                                            *)

Range(f) == {f[i] : i \in DOMAIN f}

KeyIndices == 0..(KeyCount - 1)

\* block b (1-based) decodes: zlib tag, sound stream, declared size, checksum
GoodBlock(b) ==
    /\ file[b].comp_type = 2
    /\ file[b].inflated # <<>>
    /\ Len(file[b].inflated) = record_header[b].decompressed_size
    /\ file[b].checksum = adler32checksum(file[b].inflated, 0, Len(file[b].inflated))

ValidFile == \A b \in 1..Len(file) : GoodBlock(b)

\* the record block (0-based) whose decompressed range holds entry i
BlockOfEntry(i) ==
    CHOOSE r \in 0..(Len(record_header) - 1) :
        /\ RecordHeaderAt(r).decompressed_size_accumulator <= KeyAt(i).record_start
        /\ KeyAt(i).record_start < RecordHeaderAt(r).decompressed_size_accumulator
                                   + RecordHeaderAt(r).decompressed_size

\* the bytes stored for entry i: from its record_start to the next entry's,
\* or to the end of its block
StoredValue(i) ==
    LET r == BlockOfEntry(i)
        acc == RecordHeaderAt(r).decompressed_size_accumulator
        size == RecordHeaderAt(r).decompressed_size
        from == KeyAt(i).record_start - acc
        to == IF i + 1 < KeyCount
              THEN Min(KeyAt(i + 1).record_start - acc, size)
              ELSE size
    IN SubSeq(file[r + 1].inflated, from + 1, to)

\* the value as a query hands it out: text without trailing NULs, or hex
Shown(v) ==
    IF filetype = "MDD" THEN HexOfRange(v, 0, 0, Len(v)) ELSE StripTrailingNuls(v)

\* entry i matches word raw or normalized
EntryMatches(i, word) ==
    KeyAt(i).key_word = word \/ _s(KeyAt(i).key_word) = _s(word)

ContainsIgnoringCase(v, q) == Contains(ToLowerStr(v), ToLowerStr(q))

IsDecode(e) == e.type = "decode"
IsProgress(e) == e.type = "progress"

----------------------------------------------------------------------------
(* Claims.                                                                  *)

\* C1: on a TEXT dictionary whose blocks decode, lookup(word) returns exactly
\* one value for every key entry that matches word raw or normalized, and
\* no value for any other entry.
C1_LookupOneValuePerMatch ==
    (op = "lookup" /\ filetype = "MDX" /\ ValidFile) =>
        /\ Len(result) = Len(emitted)
        /\ \A p \in 1..Len(emitted) : emitted[p] \in KeyIndices /\ EntryMatches(emitted[p], arg)
        /\ \A i \in KeyIndices :
              EntryMatches(i, arg) =>
                 Cardinality({p \in 1..Len(emitted) : emitted[p] = i}) = 1

\* a lookup that returned a raw match and a match found by normalization only
C1_Witness ==
    /\ op = "lookup" /\ filetype = "MDX" /\ ValidFile
    /\ Len(result) = 2
    /\ \E p, q \in 1..Len(emitted) :
          /\ KeyAt(emitted[p]).key_word = arg
          /\ KeyAt(emitted[q]).key_word # arg

\* C2: on a TEXT dictionary whose blocks decode, the list lookup(k) returns
\* contains the stored value of every entry whose key is k.
C2_RoundTrip ==
    (op = "lookup" /\ filetype = "MDX" /\ ValidFile) =>
        \A i \in KeyIndices :
            KeyAt(i).key_word = arg =>
                \E p \in 1..Len(result) : result[p] = Shown(StoredValue(i))

\* C3: lookup of a word that matches no key entry returns the empty list,
\* raises nothing and decodes no record block.
C3_MissingKeyEmptyNoDecode ==
    (op = "lookup" /\ \A i \in KeyIndices : ~EntryMatches(i, arg)) =>
        /\ result = <<>>
        /\ ~raised
        /\ events = <<>>

\* a lookup of "b" in a dictionary that has no such key
C3_Witness ==
    /\ op = "lookup" /\ arg = <<98>>
    /\ \A i \in KeyIndices : ~EntryMatches(i, arg)
    /\ result = <<>>

\* C4: a record block that fails to decode during lookup ends the lookup
\* with an error raised to the caller.
C4_DecodeErrorPropagates ==
    (op = "lookup" /\ \E k \in 1..Len(events) : events[k].type = "decode" /\ events[k].err # "")
        => raised

\* C5: suggest(p) returns only keys whose lowercased form starts with the
\* lowercased p, at most 50 of them, in key-list order, and nothing when p
\* is empty.
C5_SuggestPrefixCapOrder ==
    op = "suggest" =>
        /\ Len(result) <= 50
        /\ Len(emitted) = Len(result)
        /\ \A p \in 1..Len(result) :
              /\ emitted[p] \in KeyIndices
              /\ result[p] = KeyAt(emitted[p]).key_word
              /\ StartsWith(ToLowerStr(result[p]), ToLowerStr(arg))
        /\ \A p \in 1..(Len(emitted) - 1) : emitted[p] < emitted[p + 1]
        /\ (arg = <<>> => result = <<>>)

\* a suggest that met more than 50 keys with the prefix and returned 50
C5_Witness ==
    /\ op = "suggest"
    /\ Len(result) = 50
    /\ Cardinality({i \in KeyIndices :
                      StartsWith(ToLowerStr(KeyAt(i).key_word), ToLowerStr(arg))}) > 50

\* the pattern, compiled ignoring case, is found in the key
PatternMatches(pattern, key) ==
    /\ ~wregex(utf8_to_wstring(pattern)).err
    /\ regex_search(utf8_to_wstring(key), wregex(utf8_to_wstring(pattern)))

IsScan(e) == e.type = "scan"

\* C6: regex_suggest returns only keys of key_list that the pattern,
\* compiled case-insensitively, matches, and never more than 50 keys.
C6_RegexOnlyMatchingCapped ==
    op = "regex_suggest" =>
        /\ Len(result) <= 50
        /\ \A p \in 1..Len(result) :
              /\ result[p] = KeyAt(emitted[p]).key_word
              /\ PatternMatches(arg, result[p])

\* a regex_suggest that returned 50 keys of a dictionary in which more than
\* 50 keys match the pattern and at least one key does not
C6_Witness ==
    /\ op = "regex_suggest"
    /\ Len(result) = 50
    /\ KeyCount = MediumKeys + 1
    /\ Cardinality({i \in KeyIndices : PatternMatches(arg, KeyAt(i).key_word)}) > 50
    /\ \E i \in KeyIndices : ~PatternMatches(arg, KeyAt(i).key_word)

\* C7: a regex_suggest call examines at most 20,000 keys of key_list, whether
\* or not they passed the literal prefilters.
C7_ScanExaminesAtMostLimit ==
    op = "regex_suggest" =>
        \A e \in Range(SelectSeq(events, IsScan)) : e.visited <= 20000

\* C8: on a TEXT dictionary whose blocks decode, fulltext_search(q) returns
\* only keys whose stored value contains q ignoring case, visits the record
\* blocks in increasing index order, and never returns more than 50 keys,
\* stopping at the block that yields the 50th.
C8_FulltextOnlyContaining ==
    (op = "fulltext_search" /\ filetype = "MDX" /\ ValidFile) =>
        LET decodes == SelectSeq(events, IsDecode) IN
        /\ Len(result) <= 50
        /\ \A p \in 1..Len(result) :
              /\ result[p] = KeyAt(emitted[p]).key_word
              /\ ContainsIgnoringCase(StoredValue(emitted[p]), arg[1])
        /\ \A k \in 1..Len(decodes) : decodes[k].rid = k - 1
        /\ (Len(result) = 50 =>
               decodes[Len(decodes)].rid = BlockOfEntry(emitted[50]))

\* C9: a record block that fails to decode does not abort fulltext_search:
\* unless the 50-hit cap is reached, every block is still tried in order,
\* no key of a failed block is returned, and every entry of a sound block
\* whose value contains the query is returned.
C9_FulltextSkipsFailedBlock ==
    (op = "fulltext_search" /\ Len(result) < 50) =>
        LET decodes == SelectSeq(events, IsDecode) IN
        /\ ~raised
        /\ Len(decodes) = Len(record_header)
        /\ \A k \in 1..Len(decodes) : decodes[k].rid = k - 1
        /\ \A p \in 1..Len(emitted) : GoodBlock(BlockOfEntry(emitted[p]) + 1)
        /\ \A i \in 0..(KeyCount - 2) :
              (/\ GoodBlock(BlockOfEntry(i) + 1)
               /\ ContainsIgnoringCase(Shown(StoredValue(i)), arg[1]))
                  => \E p \in 1..Len(emitted) : emitted[p] = i

\* a search in which a middle block failed to decode and keys of an earlier
\* and of a later block were returned
C9_Witness ==
    /\ op = "fulltext_search" /\ Len(result) < 50
    /\ \E k \in 1..Len(events) :
          /\ events[k].type = "decode" /\ events[k].err # ""
          /\ \E p, q \in 1..Len(emitted) :
                /\ BlockOfEntry(emitted[p]) < events[k].rid
                /\ BlockOfEntry(emitted[q]) > events[k].rid

\* C10: with a progress callback and fewer than 50 hits, fulltext_search over
\* N blocks calls the callback exactly once for every block index that is a
\* multiple of 5 (so at least N div 5 times), before that block is decoded,
\* with values rid/N that increase strictly and lie in [0,1].
C10_ProgressEveryFiveBlocks ==
    (op = "fulltext_search" /\ arg[2] /\ Len(result) < 50) =>
        LET N == Len(record_header)
            reports == SelectSeq(events, IsProgress)
        IN
        /\ Len(reports) >= N \div 5
        /\ \A k \in 1..Len(reports) : reports[k].rid % 5 = 0
        /\ \A r \in 0..(N - 1) :
              r % 5 = 0 =>
                 /\ Cardinality({k \in 1..Len(reports) : reports[k].rid = r}) = 1
                 /\ \E k \in 1..(Len(events) - 1) :
                       /\ events[k].type = "progress" /\ events[k].rid = r
                       /\ events[k + 1].type = "decode" /\ events[k + 1].rid = r
        /\ \A k \in 1..Len(reports) :
              /\ reports[k].den > 0
              /\ 0 <= reports[k].num /\ reports[k].num <= reports[k].den
        /\ \A k \in 1..(Len(reports) - 1) :
              reports[k].num * reports[k + 1].den < reports[k + 1].num * reports[k].den

\* a search over more than five blocks that reported progress more than once
C10_Witness ==
    /\ op = "fulltext_search" /\ arg[2] /\ Len(result) < 50
    /\ Len(record_header) > 5
    /\ Len(SelectSeq(events, IsProgress)) >= 2

\* C11: get_match_count(word) returns the exact number of key entries whose
\* raw key_word equals word byte for byte, and 0 when there is none.
C11_MatchCountExact ==
    op = "get_match_count" =>
        result = Cardinality({i \in KeyIndices : KeyAt(i).key_word = arg})

\* the 20 characters of the punctuation set:
\* space : . , - _ ' ( ) # < > ! / \ [ ] { } @
Punctuation == {32, 58, 46, 44, 45, 95, 39, 40, 41, 35, 60, 62, 33, 47, 92,
                91, 93, 123, 125, 64}

Upper == 65..90

NotPunctuation(c) == c \notin Punctuation

\* C12: normalize_for_compare is idempotent, its output holds no byte
\* 'A'..'Z' and no punctuation byte, and every other byte of the input
\* (bytes >= 0x80 included) comes out unchanged and in order, the letters
\* 'A'..'Z' lowered in place.
C12_NormalizeIdempotent ==
    op = "_s" =>
        /\ _s(result) = result
        /\ \A i \in 1..Len(result) : result[i] \notin Upper \cup Punctuation
        /\ LET kept == SelectSeq(arg, NotPunctuation)
           IN result = [i \in 1..Len(kept) |->
                           IF kept[i] \in Upper THEN kept[i] + 32 ELSE kept[i]]

\* a word with a capital, a punctuation byte and a byte >= 0x80 was normalized
C12_Witness ==
    /\ op = "_s"
    /\ \E i, j, k \in 1..Len(arg) :
          arg[i] \in Upper /\ arg[j] \in Punctuation /\ arg[k] >= 128
    /\ Len(result) = 2

\* the header was read and converted
HeaderRead == disk.present /\ disk.utf16ok

\* the Encrypted attribute of the file, empty when absent
EncryptedAttrOnDisk ==
    IF "Encrypted" \in DOMAIN disk.attrs THEN disk.attrs["Encrypted"] ELSE <<>>

RecordEncryptedOnDisk ==
    \/ EncryptedAttrOnDisk = StrYes
    \/ EncryptedAttrOnDisk # <<>> /\ EncryptedAttrOnDisk[1] = 49

\* C13: the header attribute Encrypted maps to none for "No" or empty or
\* absent, to record-encrypted for "Yes" or a first character '1', to
\* key-info-scrambled for a first character '2'; init() ends with an error
\* for every record-encrypted file and such a dictionary is never ready.
C13_EncryptedMapping ==
    HeaderRead =>
        /\ RecordEncryptedOnDisk => phase \in {"constructed", "failed"}
        /\ op = "init" =>
              /\ EncryptedAttrOnDisk \in {<<>>, StrNo} => encrypt = ENCRYPT_NO_ENC
              /\ RecordEncryptedOnDisk =>
                    encrypt = ENCRYPT_RECORD_ENC /\ phase = "failed" /\ raised
              /\ (EncryptedAttrOnDisk # <<>> /\ EncryptedAttrOnDisk[1] = 50) =>
                    encrypt = ENCRYPT_KEY_INFO_ENC

\* init() threw on a file whose header says Encrypted="Yes"
C13_Witness ==
    /\ op = "init"
    /\ HeaderRead
    /\ EncryptedAttrOnDisk = StrYes
    /\ phase = "failed"
    /\ result = "invalid encrypted file"

\* the Encoding attribute of the file, empty when absent
EncodingAttrOnDisk ==
    IF "Encoding" \in DOMAIN disk.attrs THEN disk.attrs["Encoding"] ELSE <<>>

\* C14: for a TEXT file the header attribute Encoding selects UTF-8 for
\* "UTF-8" or empty or absent, GB18030 for "GBK" or "GB2312", Big5 for "Big5"
\* or "BIG5", UTF-16LE for "utf16" or "UTF-16".
C14_EncodingMapping ==
    (op = "init" /\ HeaderRead /\ filetype = "MDX") =>
        /\ EncodingAttrOnDisk \in {<<>>, StrUTF8} => encoding = ENCODING_UTF8
        /\ EncodingAttrOnDisk \in {StrGBK, StrGB2312} => encoding = ENCODING_GB18030
        /\ EncodingAttrOnDisk \in {StrBig5, StrBIG5} => encoding = ENCODING_BIG5
        /\ EncodingAttrOnDisk \in {Strutf16, StrUTF16} => encoding = ENCODING_UTF16

\* C17: locate normalizes the resource name before matching (lowercase,
\* '/' to '\', a leading '\'), finds the entry stored under the normalized
\* name and returns its value as uppercase hex, two digits per byte.
C17_LocateNormalizes ==
    (op = "locate" /\ ValidFile) =>
        \A i \in KeyIndices :
            (KeyAt(i).key_word = normalize_path(arg)
             /\ \A j \in 0..(i - 1) : KeyAt(j).key_word # normalize_path(arg)) =>
                /\ result = Shown(StoredValue(i))
                /\ Len(result) = 2 * Len(StoredValue(i))

\* the entries the key blocks of the file hold
EntriesOnDisk ==
    EntriesIn([b \in 1..Len(disk.key_blocks) |-> disk.key_blocks[b].entries], 1)

\* a well-formed file, not encrypted, written in the layout below 2.0
OldFileOnDisk ==
    /\ HeaderRead
    /\ disk.width = 4
    /\ EncryptedAttrOnDisk = StrNo
    /\ disk.key_header[2] = EntriesOnDisk

\* C18: concurrent queries on one dictionary are serialized, so no query's
\* seek is followed by another query's read: every block read returns the
\* bytes at the offset that the same query asked for.
C18_ReadsOwnOffset ==
    \A t \in Threads : calls[t].from # -1 => calls[t].from = calls[t].want

QueryNames ==
    {"lookup", "locate", "get_match_count", "suggest", "regex_suggest",
     "fulltext_search"}

\* C19: once init() has returned, no lookup, locate, get_match_count,
\* suggest, regex_suggest or fulltext_search call, successful or failing,
\* changes the header fields, the key block info list, the key list or the
\* record header list.
C19_QueriesLeaveIndex ==
    [][phase = "ready" => UNCHANGED indexvars]_vars

\* a query that failed on a damaged block has returned after another query
C19_Witness ==
    /\ phase = "ready"
    /\ op \in QueryNames
    /\ key_list # <<>>
    /\ \E k \in 1..Len(events) : IsDecode(events[k]) /\ events[k].err # ""
    /\ file_pos # 0

\* C15: for a well-formed file whose GeneratedByEngineVersion is below 2.0
\* init() succeeds: the counts are read 4 bytes wide each into its own
\* member and the key list has as many entries as the header declares.
C15_OldVersionOpens ==
    (op = "init" /\ OldFileOnDisk) =>
        /\ phase = "ready"
        /\ number_width = 4
        /\ key_block_num = disk.key_header[1]
        /\ entries_num = disk.key_header[2]
        /\ KeyCount = disk.key_header[2]

IsStep(e) == e.type = "step"

\* C16: when the header bytes do not convert from UTF-16, init() ends with
\* an error and runs none of the later parsing steps; it never returns
\* normally.
C16_MalformedHeaderFatal ==
    (op = "init" /\ disk.present /\ ~disk.utf16ok) =>
        /\ phase = "failed"
        /\ raised
        /\ SelectSeq(events, IsStep) = <<Step("read_header")>>

\* a file of version 2.0 or above, not record-encrypted, whose key blocks,
\* descriptors and record section agree with each other
SoundButForDeclaredCount ==
    /\ HeaderRead
    /\ disk.width = 8
    /\ ~RecordEncryptedOnDisk
    /\ EntriesCounted(disk.info, 0, Len(disk.info)) = EntriesOnDisk
    /\ disk.record_info[2] = EntriesOnDisk

IsWarning(e) == e.type = "warning"

\* C20: when the declared entries_num differs from the number of key
\* entries present, init() records a warning and still completes, leaving
\* the dictionary ready; the mismatch never aborts init.
C20_EntryCountMismatchWarns ==
    (op = "init" /\ SoundButForDeclaredCount /\ disk.key_header[2] # EntriesOnDisk) =>
        /\ phase = "ready"
        /\ SelectSeq(events, IsWarning)
              = <<MismatchWarning(EntriesOnDisk, disk.key_header[2])>>

\* C21: decoding a record block fails when its compression tag is 0, 1 or
\* anything but 2; with tag 2 it succeeds only when the decompressed length
\* is the declared one and the Adler-32 of the decompressed bytes is the
\* stored checksum; no value comes out of a block that was not verified.
C21_DecodeVerifies ==
    op = "lookup" =>
        \A k \in 1..Len(events) :
            IsDecode(events[k]) =>
                /\ (events[k].err = "") <=> GoodBlock(events[k].rid + 1)
                /\ ~GoodBlock(events[k].rid + 1) =>
                      \A j \in 1..Len(emitted) : BlockOfEntry(emitted[j]) # events[k].rid

\* a lookup met a zlib block of the declared size whose checksum is wrong
C21_Witness ==
    /\ op = "lookup"
    /\ \E k \in 1..Len(events) :
          /\ IsDecode(events[k])
          /\ events[k].err # ""
          /\ file[events[k].rid + 1].comp_type = 2
          /\ Len(file[events[k].rid + 1].inflated)
                = RecordHeaderAt(events[k].rid).decompressed_size
    /\ result = <<>>

\* the entries of the key blocks of the file, in file order
RECURSIVE KeysOnDisk(_)
KeysOnDisk(b) ==
    IF b > Len(disk.key_blocks) THEN <<>>
    ELSE disk.key_blocks[b].entries \o KeysOnDisk(b + 1)

\* C22: init decodes each key block by the compression tag at byte 0 of
\* that block's own data and takes its body from that block's own offset:
\* a block tagged 1 (LZO) keeps init from succeeding, a block with an
\* unknown tag does too, and when init succeeds the key list holds the
\* entries of every block in file order.
C22_KeyBlockOwnTag ==
    op = "init" =>
        /\ (\E b \in 1..Len(disk.key_blocks) : disk.key_blocks[b].comp_type \notin {0, 2})
              => phase # "ready"
        /\ phase = "ready" => key_list = KeysOnDisk(1)

\* the offset of entry i inside its record block, and the size of the block
StartInBlock(i) ==
    KeyAt(i).record_start - RecordHeaderAt(BlockOfEntry(i)).decompressed_size_accumulator

BlockSizeOf(i) == RecordHeaderAt(BlockOfEntry(i)).decompressed_size

\* C23: the value slice of a key entry stays inside its decompressed record
\* block: its length is at most decomp_size minus the entry's offset in the
\* block (a resource comes back as two hex digits per byte taken).
C23_SliceInsideBlock ==
    (op = "locate" /\ ValidFile /\ emitted # <<>>) =>
        Len(result) <= 2 * (BlockSizeOf(emitted[1]) - StartInBlock(emitted[1]))

\* C24: for the last entry of the key list the value is the tail: exactly
\* the bytes from its offset to the end of the last decompressed record
\* block, whatever the compressed sizes are.
C24_LastEntryIsTail ==
    (op = "locate" /\ ValidFile /\ emitted = <<KeyCount - 1>>) =>
        result = HexOfRange(file[Len(file)].inflated, 0, StartInBlock(KeyCount - 1),
                            Len(file[Len(file)].inflated) - StartInBlock(KeyCount - 1))

\* C25: for every key entry the binary search over the record directory
\* returns the largest index whose decompressed accumulator is at most the
\* entry's record_start; the index is one of the directory (no underflow,
\* no access out of range) and the entry's record_start lies inside that
\* block.
C25_DirectorySearch ==
    op = "reduce_record_block_offset" =>
        LET record_start == KeyAt(arg).record_start IN
        /\ result \in 0..(Len(record_header) - 1)
        /\ RecordHeaderAt(result).decompressed_size_accumulator <= record_start
        /\ \A r \in (result + 1)..(Len(record_header) - 1) :
              RecordHeaderAt(r).decompressed_size_accumulator > record_start
        /\ record_start < RecordHeaderAt(result).decompressed_size_accumulator
                          + RecordHeaderAt(result).decompressed_size

\* the search ran for an entry of a block in the middle of a directory
C25_Witness ==
    /\ op = "reduce_record_block_offset"
    /\ Len(record_header) > 2
    /\ result > 0
    /\ result < Len(record_header) - 1

\* C26: after init the accumulators of the key block info list and of the
\* record header list are prefix sums in the order of the file: entry 0 has
\* accumulators 0 and each later entry has the accumulators of the entry
\* before it plus that entry's compressed and decompressed size.
C26_PrefixSums ==
    (op = "init" /\ phase = "ready") =>
        /\ Len(key_block_info_list) = Len(disk.info)
        /\ Len(record_header) = Len(disk.record_sizes)
        /\ \A i \in 1..Len(key_block_info_list) :
              /\ key_block_info_list[i].key_block_comp_size = disk.info[i].comp_size
              /\ key_block_info_list[i].key_block_decomp_size = disk.info[i].decomp_size
              /\ key_block_info_list[i].key_block_comp_accumulator =
                    IF i = 1 THEN 0
                    ELSE key_block_info_list[i - 1].key_block_comp_accumulator
                         + key_block_info_list[i - 1].key_block_comp_size
              /\ key_block_info_list[i].key_block_decomp_accumulator =
                    IF i = 1 THEN 0
                    ELSE key_block_info_list[i - 1].key_block_decomp_accumulator
                         + key_block_info_list[i - 1].key_block_decomp_size
        /\ \A i \in 1..Len(record_header) :
              /\ record_header[i].compressed_size = disk.record_sizes[i][1]
              /\ record_header[i].decompressed_size = disk.record_sizes[i][2]
              /\ record_header[i].compressed_size_accumulator =
                    IF i = 1 THEN 0
                    ELSE record_header[i - 1].compressed_size_accumulator
                         + record_header[i - 1].compressed_size
              /\ record_header[i].decompressed_size_accumulator =
                    IF i = 1 THEN 0
                    ELSE record_header[i - 1].decompressed_size_accumulator
                         + record_header[i - 1].decompressed_size

\* init read two key blocks and three record blocks of different sizes
C26_Witness ==
    /\ op = "init" /\ phase = "ready"
    /\ Len(key_block_info_list) = 2
    /\ key_block_info_list[1].key_block_comp_size
          # key_block_info_list[1].key_block_decomp_size
    /\ Len(record_header) >= 3
    /\ record_header[1].compressed_size # record_header[2].compressed_size
    /\ record_header[3].decompressed_size_accumulator > 0

\* C27: splitting a decompressed key block ends for every content: the
\* scan index grows in every iteration, also when a key has no delimiter
\* before the end of the block, no negative key length is computed, and
\* the split ends with the entries or with an error.
C27_SplitAdvances ==
    [][split.pc = "scan" =>
          /\ split'.key_len >= 0
          /\ split'.pc \in {"scan", "done", "failed"}
          /\ (split'.pc = "scan" /\ split.key_start_idx < Len(split.key_block))
                => split'.key_start_idx > split.key_start_idx]_vars


\* key_list is in the order of its lowercased keys
SortedLowercased ==
    \A r \in 1..(Len(key_list) - 1) :
        ~StrLess(ToLowerStr(key_list[r + 1].key_word), ToLowerStr(key_list[r].key_word))

\* the scan without the two shortcuts: the regex runs on every key in
\* key_list order, stops at 50 hits and after RegexCheckLimit + 1 checks
RECURSIVE PlainScan(_, _, _, _)
PlainScan(pattern, r, checked, acc) ==
    IF r > Len(key_list) \/ Len(acc) >= 50 \/ checked > RegexCheckLimit THEN acc
    ELSE LET n == Min(key_list[r].count, RegexCheckLimit + 1 - checked)
             take == IF PatternMatches(pattern, key_list[r].key_word)
                     THEN Min(n, 50 - Len(acc)) ELSE 0
         IN PlainScan(pattern, r + 1, checked + n,
                      acc \o [k \in 1..take |-> key_list[r].key_word])

\* regex_suggest without the two shortcuts; the empty pattern returns nothing
PlainRegexSuggest(pattern) ==
    IF pattern = <<>> THEN <<>> ELSE PlainScan(pattern, 1, 0, <<>>)

\* C28: on a key list sorted in lowercased order, regex_suggest with the '^'
\* prefix binary search and the longest-literal prefilter returns the same
\* list as the plain scan that runs the case-insensitive regex on every key
\* under the same caps: the prefilters exclude no key the regex matches.
C28_PrefiltersPreserveResult ==
    (op = "regex_suggest" /\ SortedLowercased) =>
        result = PlainRegexSuggest(arg)

\* C29: the key blocks are read at key_block_info_start_offset +
\* key_block_info_size, taken as a 64-bit sum, and the length asked for is
\* key_block_size; neither value is cut to 32 bits or turned negative.
C29_KeyBlockReadIs64Bit ==
    op = "read_key_block_info" =>
        /\ result[1] = Add64(arg[1], arg[2])
        /\ result[2] = arg[3]

\* the errors decode_record_block_by_rid derives from the bytes of its buffer
BufferErrors ==
    {"uncompress block not support yet", "record encrypted not support yet",
     "lzo compress not support yet", "record block decompress failed size == 0",
     "record block decompress size mismatch", "record block checksum mismatch",
     "cannot determine the record block compress type"}

\* C30: when the file source delivers fewer bytes than asked for, the seek
\* fails or there is no file handle, decode_record_block_by_rid fails with a
\* read error of its own and returns no entry: it does not go on to parse a
\* buffer the file did not fill.
C30_ReadFailureReported ==
    (op = "decode_record_block_by_rid" /\ arg[2] # "full") =>
        /\ raised
        /\ events[1].err \notin BufferErrors
        /\ result = <<>>
====
